---- MODULE Spec2Model ----
(***************************************************************************)
(* State-machine model of python_env_manager.                              *)
(*                                                                         *)
(* Part 1 (specifications Spec and SpecScope): EnvManager of               *)
(* env_manager/env_manager.py acting on the process-wide state it shares   *)
(* with every other piece of code in the process: os.environ, sys.path     *)
(* and the file system.                                                    *)
(* Part 2 (specification SpecPkg): PackageManager and its scoped           *)
(* installation, env_manager/package_manager.py, over a runner that        *)
(* records the commands it is given.                                       *)
(* Part 3 (specification SpecState): GlobalState of                        *)
(* env_manager/program_state.py and the configuration file it is saved to  *)
(* and loaded from.                                                        *)
(* Part 4 (specification SpecFactory): the registry of RunnerFactory,      *)
(* env_manager/runners/runner_factory.py.                                  *)
(* Part 5 (specification SpecRun): the preparation and execution of a      *)
(* command by EnvManager.run, by ProgressRunner.prepare_command and by     *)
(* the run methods of env_manager/runners.                                 *)
(* Part 6 (specification SpecNested): two managers activated and           *)
(* deactivated in the same process.                                        *)
(* Part 7 (specification SpecClassify): Environment.is_local of            *)
(* env_manager.py and of environment.py.                                   *)
(* Part 8 (specification SpecLocate): PythonLocal of env_local.py, with    *)
(* the outcome of every subprocess call and file read as an input.         *)
(* Part 9 (specification SpecDevTools): main() and exit_handler of         *)
(* dev_tools.py.                                                           *)
(* Part 10 (specification SpecSpinner): ProgressRunner.run of              *)
(* runners/progress_runner.py with its timer thread, its child process     *)
(* and the two pipes between them.                                         *)
(* Part 11 (specification SpecBar): ProgressRunner.run_with_capture of     *)
(* progress_runner.py.                                                     *)
(*                                                                         *)
(* Platform: POSIX (os.name = "posix"), so the bin directory is "bin",     *)
(* the activation script is "activate" and os.pathsep is ":".              *)
(*                                                                         *)
(* Representation.  A path is the sequence of its components; an absolute  *)
(* path starts with the component "/".  A PATH value is the sequence of    *)
(* its ":"-separated entries, the empty string being the entry << >>.      *)
(* os.environ is a function whose DOMAIN is the set of variables that are  *)
(* set, exactly like the Python mapping.                                   *)
(***************************************************************************)
EXTENDS Integers, Sequences, FiniteSets, TLC

VARIABLES
    environ,    \* os.environ
    syspath,    \* sys.path
    files,      \* the paths that exist on disk (os.path.exists)
    mgr,        \* the EnvManager objects: mgr[m] holds the fields of manager m
    last,       \* observation of the most recent call (history variable)
    scope,      \* the `with manager as env:` statement in progress
    steps,      \* how many calls and outside changes the run has made
    pm,         \* a PackageManager and the `with pm.install_pkg(...)` in progress
    cmds,       \* the commands given to the runner's run(), in order
    gs,         \* a GlobalState object, its configuration directory and file
    rf,         \* the class RunnerFactory: its registry and the calls made on it
    rn,         \* the runners, the disk they look at and the processes they spawn
    nest,       \* the calls made on two managers used together, and the state each left
    cl,         \* a call of Environment.is_local: the class, the path and the answer
    pl,         \* a PythonLocal instance, the files and interpreters around it and its last call
    dt,         \* one run of the dev_tools command line: exit_status, the process exit code and the persisted GlobalState
    spin,       \* one call of run() on a ProgressRunner of env_manager/runners: the calling thread, the timer thread, the child process and its pipes
    bar         \* one call of run_with_capture on a ProgressRunner of progress_runner.py: the loop, the child process and its pipes

vars == <<environ, syspath, files, mgr, last, scope, steps, pm, cmds, gs, rf, rn, nest, cl, pl, dt, spin, bar>>

----------------------------------------------------------------------------
(* os.path on POSIX *)

Cwd == <<"/">>

isabs(p) == Len(p) > 0 /\ p[1] = "/"

join(a, b) == IF isabs(b) THEN b ELSE a \o b

(* posixpath.normpath of an absolute path: "." and empty components are   *)
(* dropped, ".." removes the component before it and is dropped at the    *)
(* root.  acc is the normalised prefix, rest what is still to be read.    *)
RECURSIVE normpath_from(_, _)
normpath_from(acc, rest) ==
    IF rest = <<>> THEN acc
    ELSE LET c == Head(rest) IN
         IF c = "." \/ c = "" THEN normpath_from(acc, Tail(rest))
         ELSE IF c = ".."
              THEN normpath_from(IF Len(acc) > 1 THEN SubSeq(acc, 1, Len(acc) - 1) ELSE acc,
                                 Tail(rest))
              ELSE normpath_from(Append(acc, c), Tail(rest))

normpath(p) == normpath_from(<<"/">>, Tail(p))

abspath(p) == normpath(IF isabs(p) THEN p ELSE join(Cwd, p))

basename(p) == IF Len(p) > 1 THEN p[Len(p)] ELSE ""

(* s occurs in p as a run of whole components that follows a separator *)
has_infix(p, s) ==
    \E i \in 2..(Len(p) - Len(s) + 1) : SubSeq(p, i, i + Len(s) - 1) = s

ends_with(p, s) ==
    Len(p) > Len(s) /\ SubSeq(p, Len(p) - Len(s) + 1, Len(p)) = s

----------------------------------------------------------------------------
(* The paths of the model *)

V1 == <<"/", "v1">>
V2 == <<"/", "v2">>
V1Dot == <<"/", "v1", ".">>                 \* "/v1/." : another spelling of V1
V1Rel == <<"v1">>                           \* "v1", relative to the cwd
LocalRoot == <<"/", "Library", "Frameworks", "Python.framework">>
SysPrefix == <<"/", "usr">>                 \* sys.prefix
SysExecutable == <<"/", "usr", "bin", "python3">>   \* sys.executable

None == <<"None">>                          \* the argument path=None

EmptyEnv == [k \in {} |-> <<>>]

----------------------------------------------------------------------------
(* class Environment (env_manager.py) *)

(* Environment.is_local, the Unix-like patterns, matched with re.search.  *)
is_local(python_root) ==
    \/ ends_with(python_root, <<"usr", "bin">>)
    \/ ends_with(python_root, <<"usr", "local", "bin">>)
    \/ ends_with(python_root, <<"opt", "homebrew", "bin">>)
    \/ has_infix(python_root, <<"Library", "Frameworks", "Python.framework">>)
    \/ \E c \in {"anaconda", "anaconda3", "miniconda", "miniconda3"} :
           ends_with(python_root, <<c, "bin">>)

(* Environment.__init__(path): the root is resolved from the argument,    *)
(* else from VIRTUAL_ENV, else from sys.prefix.                            *)
env_root(path, env) ==
    IF path # None THEN abspath(path)
    ELSE IF "VIRTUAL_ENV" \in DOMAIN env THEN abspath(env["VIRTUAL_ENV"])
    ELSE abspath(SysPrefix)

Environment(path, env) ==
    LET root == env_root(path, env)
        virtual == ~is_local(root)
    IN [root |-> root,
        is_virtual |-> virtual,
        bin |-> join(root, <<"bin">>),
        lib |-> join(root, <<"lib">>),
        python |-> IF virtual THEN join(join(root, <<"bin">>), <<"python">>)
                   ELSE SysExecutable,
        name |-> basename(root)]

----------------------------------------------------------------------------
(* class Environment (environment.py), the class the package exports *)

(* Environment.is_local, the "posix" patterns, matched with re.search *)
Environment_is_local(path) ==
    \/ path[Len(path)] = "usr" /\ Len(path) > 1
    \/ ends_with(path, <<"usr", "local">>)
    \/ ends_with(path, <<"usr", "bin">>)
    \/ ends_with(path, <<"usr", "local", "bin">>)
    \/ ends_with(path, <<"opt", "homebrew", "bin">>)
    \/ has_infix(path, <<"Library", "Frameworks", "Python.framework">>)
    \/ \E c \in {"anaconda", "anaconda3", "miniconda", "miniconda3"} :
           ends_with(path, <<c, "bin">>)

(* one call of is_local: cls names the class it was made on *)
ClNoCall == [path |-> <<"/">>, cls |-> "none", result |-> FALSE]

ClIdle == cl = ClNoCall

----------------------------------------------------------------------------
(* class EnvManager (env_manager.py) *)

(* how a call ends: normally, or with the error it raises *)
OK == "ok"
ActivateError == "RuntimeError: Failed to activate environment"
DeactivateError == "RuntimeError: Failed to deactivate environment"
RemoveError == "RuntimeError: Failed to remove virtual environment"
BodyError == "exception raised by the body"

Managers == {"m1", "m2"}

(* The path argument each manager is constructed with.  m1 is given a    *)
(* relative spelling of a virtual root, m2 a second virtual root or a     *)
(* root that matches a local-installation pattern.                        *)
PathArgs(m) == IF m = "m1" THEN {V1Rel} ELSE {V2, LocalRoot}

activate_script(self) == join(self.env.bin, <<"activate">>)

exists(fs, p) == p \in fs

(* What EnvBuilder.create(root) leaves on disk, as far as this module     *)
(* reads it: the root, the activation script and the interpreter.         *)
venv_files(e) == {e.root, e.bin, join(e.bin, <<"activate">>), e.python, e.lib}

(* shutil.rmtree(root): everything at or below root is gone *)
rmtree(fs, root) ==
    {p \in fs : ~(Len(p) >= Len(root) /\ SubSeq(p, 1, Len(root)) = root)}

(* EnvManager.is_active, not compared through abspath: a mutant *)
is_active_raw(self, env) ==
    "VIRTUAL_ENV" \in DOMAIN env /\ env["VIRTUAL_ENV"] = self.env.root

(* EnvManager.is_active *)
is_active(self, env) ==
    "VIRTUAL_ENV" \in DOMAIN env
    /\ abspath(env["VIRTUAL_ENV"]) = abspath(self.env.root)

(* os.environ.update(saved) without the os.environ.clear() before it: a mutant *)
restore_environ_no_clear(cur, saved) ==
    [k \in DOMAIN cur \cup DOMAIN saved |->
        IF k \in DOMAIN saved THEN saved[k] ELSE cur[k]]

(* os.environ.clear(); os.environ.update(saved) *)
restore_environ(cur, saved) == saved

(* os.environ.get("PATH", "") *)
get_PATH(env) == IF "PATH" \in DOMAIN env THEN env["PATH"] ELSE << <<>> >>

(* `bin not in os.environ.get("PATH", "")` is a substring test on the     *)
(* PATH string: bin occurs inside some entry.                              *)
in_PATH(bin, pathval) ==
    \E i \in 1..Len(pathval) :
        \/ pathval[i] = bin
        \/ has_infix(pathval[i], Tail(bin))

set_item(env, k, v) == [x \in DOMAIN env \cup {k} |-> IF x = k THEN v ELSE env[x]]

del_item(env, k) == [x \in DOMAIN env \ {k} |-> env[x]]

(* sys.path.insert(0, p) unless p is already in sys.path *)
insert_front(sp, p) ==
    IF \E i \in 1..Len(sp) : sp[i] = p THEN sp ELSE <<p>> \o sp

(* The try block of activate() runs four steps; a failure before step k   *)
(* leaves the effects of steps 1..k-1.  fail = 0: no step fails.           *)
ActivateFailPoints == 0..4
DeactivateFailPoints == 0..1

done(fail, k) == fail = 0 \/ k < fail

activate_steps(self, env, sp, fail) ==
    LET e1 == IF done(fail, 1) THEN set_item(env, "VIRTUAL_ENV", self.env.root) ELSE env
        e2 == IF done(fail, 2) /\ ~in_PATH(self.env.bin, get_PATH(e1))
              THEN set_item(e1, "PATH", <<self.env.bin>> \o get_PATH(e1))
              ELSE e1
        p3 == IF done(fail, 3)
              THEN insert_front(sp, join(self.env.lib, <<"site-packages">>))
              ELSE sp
        p4 == IF done(fail, 4) THEN insert_front(p3, self.env.lib) ELSE p3
    IN [environ |-> e2, syspath |-> p4]

(* activate() that keeps the snapshot taken at construction: a mutant *)
snapshot_kept(self, env, sp) == self

(* `self._original_env = dict(os.environ); self._original_path = list(sys.path)` *)
snapshot(self, env, sp) == [self EXCEPT !.original_env = env, !.original_path = sp]

(* activate() that does not test is_active() first: a mutant *)
must_activate_always(self, env) == TRUE

(* the guard of activate(): `if not self.is_active()` *)
must_activate(self, env) == ~is_active(self, env)

(* EnvManager.activate.  The result holds the process state the call      *)
(* leaves, the manager's fields and how the call ended.                    *)
activate(self, env, sp, fs, fail) ==
    IF ~must_activate(self, env)
    THEN [environ |-> env, syspath |-> sp, self |-> self, outcome |-> OK]
    ELSE LET snap == snapshot(self, env, sp) IN
         IF ~exists(fs, activate_script(self))
         THEN [environ |-> env, syspath |-> sp, self |-> snap, outcome |-> OK]
         ELSE LET st == activate_steps(self, env, sp, fail) IN
              IF fail = 0
              THEN [environ |-> st.environ, syspath |-> st.syspath,
                    self |-> snap, outcome |-> OK]
              ELSE [environ |-> restore_environ(st.environ, snap.original_env),
                    syspath |-> snap.original_path,
                    self |-> snap, outcome |-> ActivateError]

(* EnvManager.deactivate that returns without restoring: a mutant *)
deactivate_kept(self, env, sp, fail) ==
    [environ |-> env, syspath |-> sp, self |-> self, outcome |-> OK]

(* EnvManager.deactivate.  fail = 1: os.environ.clear() raises, the       *)
(* failure the tests inject; nothing has been changed by then.            *)
deactivate(self, env, sp, fail) ==
    IF ~is_active(self, env)
    THEN [environ |-> env, syspath |-> sp, self |-> self, outcome |-> OK]
    ELSE IF fail = 0
         THEN [environ |-> restore_environ(env, self.original_env),
               syspath |-> self.original_path, self |-> self, outcome |-> OK]
         ELSE [environ |-> env, syspath |-> sp, self |-> self,
               outcome |-> DeactivateError]


(* EnvManager.remove that deletes without deactivating: a mutant *)
remove_no_deactivate(self, env, sp, fs, dfail, rmfail) ==
    IF ~self.env.is_virtual
    THEN [environ |-> env, syspath |-> sp, files |-> fs, outcome |-> OK, events |-> <<>>]
    ELSE IF rmfail # 0 \/ ~exists(fs, self.env.root)
         THEN [environ |-> env, syspath |-> sp, files |-> fs,
               outcome |-> RemoveError, events |-> <<"rmtree">>]
         ELSE [environ |-> env, syspath |-> sp, files |-> rmtree(fs, self.env.root),
               outcome |-> OK, events |-> <<"rmtree">>]

(* EnvManager.remove.  dfail is the fault of the deactivate() it may      *)
(* call; rmfail = 1: shutil.rmtree raises having deleted nothing, 2: it   *)
(* raises after deleting the bin directory.  events lists the calls made, *)
(* in order.                                                               *)
remove(self, env, sp, fs, dfail, rmfail) ==
    IF ~self.env.is_virtual
    THEN [environ |-> env, syspath |-> sp, files |-> fs, outcome |-> OK, events |-> <<>>]
    ELSE LET active == is_active(self, env)
             d == IF active THEN deactivate(self, env, sp, dfail)
                  ELSE [environ |-> env, syspath |-> sp, self |-> self, outcome |-> OK]
             ev == IF active THEN <<"deactivate">> ELSE <<>>
         IN IF d.outcome # OK
            THEN [environ |-> d.environ, syspath |-> d.syspath, files |-> fs,
                  outcome |-> DeactivateError, events |-> ev]
            ELSE IF rmfail # 0 \/ ~exists(fs, self.env.root)
                 THEN [environ |-> d.environ, syspath |-> d.syspath,
                       files |-> IF rmfail = 2 THEN rmtree(fs, self.env.bin) ELSE fs,
                       outcome |-> RemoveError, events |-> Append(ev, "rmtree")]
                 ELSE [environ |-> d.environ, syspath |-> d.syspath,
                       files |-> rmtree(fs, self.env.root),
                       outcome |-> OK, events |-> Append(ev, "rmtree")]

RemoveFailPoints == 0..2

(* EnvManager.__exit__ that deactivates only when the body did not raise: a mutant *)
exit_unless_raised(self, env, sp, raised, fail) ==
    IF raised
    THEN [environ |-> env, syspath |-> sp, outcome |-> OK,
          deactivate_calls |-> 0, suppress |-> FALSE]
    ELSE LET d == deactivate(self, env, sp, fail) IN
         [environ |-> d.environ, syspath |-> d.syspath, outcome |-> d.outcome,
          deactivate_calls |-> 1, suppress |-> FALSE]

(* EnvManager.__exit__(exc_type, exc_val, exc_tb): deactivate() and       *)
(* return None, which never suppresses the body's exception.               *)
exit(self, env, sp, raised, fail) ==
    LET d == deactivate(self, env, sp, fail) IN
    [environ |-> d.environ, syspath |-> d.syspath, outcome |-> d.outcome,
     deactivate_calls |-> 1, suppress |-> FALSE]

(* EnvManager.__enter__: activate() and return self (m names self) *)
enter(m, self, env, sp, fs, fail) ==
    LET a == activate(self, env, sp, fs, fail) IN
    [environ |-> a.environ, syspath |-> a.syspath, self |-> a.self,
     outcome |-> a.outcome, value |-> m]

----------------------------------------------------------------------------
(* class PackageManager and class InstallPkgContextManager                *)
(* (package_manager.py)                                                    *)

Packages == {"p", "q"}

(* the most packages given to one call of install_pkg *)
MaxPkgs == 2

PackageTuples == UNION {[1..n -> Packages] : n \in 1..MaxPkgs}

ValueError == "ValueError"
InstallError == "RuntimeError: Failed to install package"
UninstallError == "RuntimeError: Failed to uninstall package"
InstallPkgsError == "RuntimeError: Failed to install packages"
UninstallPkgsError == "RuntimeError: Failed to uninstall packages"

(* the argument lists PackageManager builds for runner.run *)
install_cmd(package, pip_options) == <<"pip", "install", package>> \o pip_options
uninstall_cmd(package) == <<"pip", "uninstall", "-y", package>>

(* one call of runner.run with the arguments cmd, made while the with     *)
(* statement was in phase `by`; ok: the command succeeded, else run raised *)
run(log, cmd, by, ok) == Append(log, [cmd |-> cmd, by |-> by, ok |-> ok])

(* PackageManager.install(package, pip_options=...): one runner.run; any  *)
(* exception of the runner is wrapped.  ok: the command succeeds.         *)
install(runner, log, package, pip_options, ok, by) ==
    IF ~runner THEN [cmds |-> log, outcome |-> ValueError]
    ELSE [cmds |-> run(log, install_cmd(package, pip_options), by, ok),
          outcome |-> IF ok THEN OK ELSE InstallError]

(* PackageManager.uninstall(package) *)
uninstall(runner, log, package, ok, by) ==
    IF ~runner THEN [cmds |-> log, outcome |-> ValueError]
    ELSE [cmds |-> run(log, uninstall_cmd(package), by, ok),
          outcome |-> IF ok THEN OK ELSE UninstallError]

(* InstallPkgContextManager.__init__(pkg_manager, packages): nothing is   *)
(* run; _installed starts False.                                           *)
NoCM == [exists |-> FALSE, packages |-> <<>>, installed |-> FALSE]

InstallPkgContextManager(packages) ==
    [exists |-> TRUE, packages |-> packages, installed |-> FALSE]

(* The loop `for package in self.packages: install(package)` stopped by   *)
(* the first failure.  failAt = 0: every command succeeds; failAt = k:    *)
(* the k-th fails, so k commands were issued.                              *)
RECURSIVE install_each(_, _, _, _, _, _)
install_each(runner, log, packages, i, failAt, by) ==
    IF i > Len(packages) THEN [cmds |-> log, outcome |-> OK]
    ELSE LET r == install(runner, log, packages[i], <<>>, failAt # i, by) IN
         IF r.outcome # OK THEN r
         ELSE install_each(runner, r.cmds, packages, i + 1, failAt, by)

RECURSIVE uninstall_each(_, _, _, _, _, _)
uninstall_each(runner, log, packages, i, failAt, by) ==
    IF i > Len(packages) THEN [cmds |-> log, outcome |-> OK]
    ELSE LET r == uninstall(runner, log, packages[i], failAt # i, by) IN
         IF r.outcome # OK THEN r
         ELSE uninstall_each(runner, r.cmds, packages, i + 1, failAt, by)

(* __enter__ that forgets `self._installed = True`: a mutant *)
cm_enter_flag_unset(runner, cm, log, failAt) ==
    LET r == install_each(runner, log, cm.packages, 1, failAt, "enter") IN
    [cm |-> cm, cmds |-> r.cmds,
     outcome |-> IF r.outcome = OK THEN OK ELSE InstallPkgsError]

(* __enter__ that logs a failed installation and returns: a mutant *)
cm_enter_swallow(runner, cm, log, failAt) ==
    LET r == install_each(runner, log, cm.packages, 1, failAt, "enter") IN
    [cm |-> [cm EXCEPT !.installed = (r.outcome = OK)], cmds |-> r.cmds, outcome |-> OK]

(* InstallPkgContextManager.__enter__ *)
cm_enter(runner, cm, log, failAt) ==
    LET r == install_each(runner, log, cm.packages, 1, failAt, "enter") IN
    IF r.outcome = OK
    THEN [cm |-> [cm EXCEPT !.installed = TRUE], cmds |-> r.cmds, outcome |-> OK]
    ELSE [cm |-> cm, cmds |-> r.cmds, outcome |-> InstallPkgsError]

(* InstallPkgContextManager.__exit__: returns None, so the body's         *)
(* exception is never suppressed                                           *)
cm_exit(runner, cm, log, failAt) ==
    IF ~cm.installed THEN [cmds |-> log, outcome |-> OK]
    ELSE LET r == uninstall_each(runner, log, cm.packages, 1, failAt, "exit") IN
         [cmds |-> r.cmds,
          outcome |-> IF r.outcome = OK THEN OK ELSE UninstallPkgsError]

(* pc: where the statement `with pm.install_pkg(...): body` is *)
NoWith ==
    [runner |-> TRUE, cm |-> NoCM, pc |-> "idle", bodyRaised |-> FALSE,
     outcome |-> OK, bodyCalls |-> 0]

PkgIdle == pm = NoWith /\ cmds = <<>>

----------------------------------------------------------------------------
(* class GlobalState (program_state.py)                                    *)
(*                                                                         *)
(* A text is the sequence of its pieces (one character, or a run of        *)
(* characters that is never split); a file is the sequence of its lines.  *)
(* A Python value is a record of one shape: t names its type, n holds a   *)
(* number, s the characters of a string or the keys of a mapping, items   *)
(* the elements of a sequence or the values of a mapping.                  *)

PyValue(t, n, s, items) == [t |-> t, n |-> n, s |-> s, items |-> items]
PyNone == PyValue("null", 0, <<>>, <<>>)
PyBool(b) == PyValue("bool", IF b THEN 1 ELSE 0, <<>>, <<>>)
PyInt(n) == PyValue("int", n, <<>>, <<>>)
PyFloat(tenths) == PyValue("float", tenths, <<>>, <<>>)
PyStr(s) == PyValue("str", 0, s, <<>>)
PyList(items) == PyValue("list", 0, <<>>, items)
PyDict(keys, values) == PyValue("dict", 0, keys, values)

(* the values an application stores *)
StoredStrings == {<<"a">>, <<"%">>, <<"%", "%">>}

StoredValues ==
    {PyNone, PyBool(TRUE), PyInt(1), PyFloat(15)}
    \cup {PyStr(x) : x \in StoredStrings}
    \cup {PyList(<<PyInt(1), PyStr(<<"a">>)>>),
          PyDict(<<"b">>, <<PyList(<<PyBool(TRUE), PyNone>>)>>)}

(* the values a text of the model can be the JSON form of *)
JsonValues ==
    StoredValues
    \cup {PyBool(FALSE), PyInt(2), PyStr(<<>>), PyList(<<PyBool(TRUE), PyNone>>),
          PyList(<<>>), PyDict(<<>>, <<>>)}

(* the keys an application stores values under *)
StoredKeys == {<<"a">>, <<"A">>, <<"a", ":", "b">>}

EmptyStore == [k \in {} |-> PyNone]

(* json.dumps(value) *)
RECURSIVE json_dumps(_)
RECURSIVE dumps_items(_)
RECURSIVE dumps_pairs(_, _)

dumps_items(items) ==
    IF items = <<>> THEN <<>>
    ELSE json_dumps(Head(items))
         \o (IF Len(items) > 1 THEN <<", ">> \o dumps_items(Tail(items)) ELSE <<>>)

dumps_pairs(keys, values) ==
    IF keys = <<>> THEN <<>>
    ELSE <<"\"", Head(keys), "\"", ": ">> \o json_dumps(Head(values))
         \o (IF Len(keys) > 1 THEN <<", ">> \o dumps_pairs(Tail(keys), Tail(values))
             ELSE <<>>)

json_dumps(v) ==
    CASE v.t = "null" -> <<"null">>
      [] v.t = "bool" -> IF v.n = 1 THEN <<"true">> ELSE <<"false">>
      [] v.t = "int" -> <<ToString(v.n)>>
      [] v.t = "float" -> <<ToString(v.n \div 10), ".", ToString(v.n % 10)>>
      [] v.t = "str" -> <<"\"">> \o v.s \o <<"\"">>
      [] v.t = "list" -> <<"[">> \o dumps_items(v.items) \o <<"]">>
      [] v.t = "dict" -> <<"{">> \o dumps_pairs(v.s, v.items) \o <<"}">>

(* json.loads(text): the value the text is the JSON form of, or           *)
(* JSONDecodeError                                                        *)
json_loads(text) ==
    IF \E v \in JsonValues : json_dumps(v) = text
    THEN [ok |-> TRUE, value |-> CHOOSE v \in JsonValues : json_dumps(v) = text]
    ELSE [ok |-> FALSE, value |-> PyNone]

(* ConfigParser.optionxform: str.lower *)
lower(c) == IF c = "A" THEN "a" ELSE IF c = "B" THEN "b" ELSE c

optionxform(key) == [i \in 1..Len(key) |-> lower(key[i])]

(* BasicInterpolation.before_set: with every "%%" taken out no "%" may    *)
(* be left, else ValueError                                                *)
RECURSIVE before_set(_)
before_set(value) ==
    IF value = <<>> THEN TRUE
    ELSE IF Head(value) = "%"
         THEN Len(value) >= 2 /\ value[2] = "%" /\ before_set(Tail(Tail(value)))
         ELSE before_set(Tail(value))

(* BasicInterpolation.before_get: "%%" is read as "%"; a "%" followed by  *)
(* anything else is InterpolationSyntaxError                               *)
RECURSIVE before_get(_)
before_get(value) ==
    IF value = <<>> THEN [ok |-> TRUE, text |-> <<>>]
    ELSE IF Head(value) = "%"
         THEN IF Len(value) >= 2 /\ value[2] = "%"
              THEN LET r == before_get(Tail(Tail(value))) IN
                   [ok |-> r.ok, text |-> <<"%">> \o r.text]
              ELSE [ok |-> FALSE, text |-> <<>>]
         ELSE LET r == before_get(Tail(value)) IN
              [ok |-> r.ok, text |-> <<Head(value)>> \o r.text]

(* the order configparser writes the options of the store in, and the     *)
(* orders the items of a store can have been inserted in                   *)
KeyOrder == <<<<"a">>, <<"a", ":", "b">>>>

Orders ==
    {o \in UNION {[1..n -> StoredKeys] : n \in 0..Cardinality(StoredKeys)} :
        \A i, j \in DOMAIN o : i # j => o[i] # o[j]}

InsertionOrders(store) ==
    {o \in Orders : {o[i] : i \in DOMAIN o} = DOMAIN store}

(* `for key, value in self.items(): config.set('state', key,              *)
(* json.dumps(value))`: the options of section state; an option set twice *)
(* keeps the later value                                                   *)
RECURSIVE set_options(_, _, _)
set_options(acc, store, order) ==
    IF order = <<>> THEN acc
    ELSE LET k == Head(order)
             o == optionxform(k)
         IN set_options([x \in DOMAIN acc \cup {o} |->
                            IF x = o THEN json_dumps(store[k]) ELSE acc[x]],
                        store, Tail(order))

NoOptions == [o \in {} |-> <<>>]

(* ConfigParser.write: the section header, then one line                  *)
(* "option = value" per option                                             *)
RECURSIVE write_options(_, _)
write_options(options, order) ==
    IF order = <<>> THEN <<>>
    ELSE (IF Head(order) \in DOMAIN options
          THEN << Head(order) \o <<" = ">> \o options[Head(order)] >>
          ELSE <<>>)
         \o write_options(options, Tail(order))

write(options) == << <<"[state]">> >> \o write_options(options, KeyOrder)

NoFile == [exists |-> FALSE, lines |-> <<>>]

TextFile(lines) == [exists |-> TRUE, lines |-> lines]

FileNotFoundError == "FileNotFoundError"

(* GlobalState.save.  order: the insertion order of the store's items.    *)
save(store, dir, file, order) ==
    IF \E k \in DOMAIN store : ~before_set(json_dumps(store[k]))
    THEN [file |-> file, outcome |-> ValueError]
    ELSE IF ~dir THEN [file |-> file, outcome |-> FileNotFoundError]
    ELSE [file |-> TextFile(write(set_options(NoOptions, store, order))),
          outcome |-> OK]

(* ConfigParser.read: the lines are read one by one.  A line is a section *)
(* header, or "option<delimiter>value" with the first "=" or ":" as the   *)
(* delimiter.                                                              *)
Delimiters == {"=", ":", " = "}
SectionHeaders == {"[state]", "[other]"}

MissingSectionHeaderError == "MissingSectionHeaderError"
DuplicateOptionError == "DuplicateOptionError"
ParsingError == "ParsingError"

first_delimiter(line) ==
    IF \E i \in 1..Len(line) : line[i] \in Delimiters
    THEN CHOOSE i \in 1..Len(line) :
            line[i] \in Delimiters /\ \A j \in 1..(i - 1) : line[j] \notin Delimiters
    ELSE 0

RECURSIVE read_lines(_, _)
read_lines(acc, lines) ==
    IF lines = <<>> \/ acc.error \notin {OK, ParsingError} THEN acc
    ELSE LET line == Head(lines)
             d == first_delimiter(line)
         IN IF Len(line) = 1 /\ line[1] \in SectionHeaders
            THEN read_lines([acc EXCEPT !.section = line[1],
                                        !.has_state = @ \/ line[1] = "[state]"],
                            Tail(lines))
            ELSE IF acc.section = "none"
            THEN [acc EXCEPT !.error = MissingSectionHeaderError]
            ELSE IF d = 0
            THEN read_lines([acc EXCEPT !.error = ParsingError], Tail(lines))
            ELSE LET o == optionxform(SubSeq(line, 1, d - 1))
                     v == SubSeq(line, d + 1, Len(line))
                 IN IF acc.section # "[state]"
                    THEN read_lines(acc, Tail(lines))
                    ELSE IF o \in DOMAIN acc.state
                    THEN [acc EXCEPT !.error = DuplicateOptionError]
                    ELSE read_lines(
                            [acc EXCEPT !.state =
                                [x \in DOMAIN acc.state \cup {o} |->
                                    IF x = o THEN v ELSE acc.state[x]]],
                            Tail(lines))

read(file) ==
    read_lines([section |-> "none", has_state |-> FALSE, state |-> NoOptions,
                error |-> OK],
               file.lines)

(* `self[key] = json.loads(value)`, or the text itself when it is no JSON *)
loaded_value(text) ==
    LET r == json_loads(text) IN IF r.ok THEN r.value ELSE PyStr(text)

(* GlobalState.load.  diag: the diagnostic message was printed.  An error *)
(* of config.read is raised before self.clear() is reached.                *)
load(store, file) ==
    IF ~file.exists THEN [store |-> store, diag |-> FALSE]
    ELSE LET config == read(file) IN
         IF config.error # OK THEN [store |-> store, diag |-> TRUE]
         ELSE IF ~config.has_state THEN [store |-> EmptyStore, diag |-> FALSE]
         ELSE IF \E o \in DOMAIN config.state : ~before_get(config.state[o]).ok
              THEN [store |-> EmptyStore, diag |-> TRUE]
              ELSE [store |-> [o \in DOMAIN config.state |->
                                  loaded_value(before_get(config.state[o]).text)],
                    diag |-> FALSE]

(* GlobalState.__init__(app_name, config_dir): an empty dict, then load() *)
GlobalState(file) == load(EmptyStore, file)

(* GlobalState.update(d) with a dict d *)
update(store, d) ==
    [k \in DOMAIN store \cup DOMAIN d |-> IF k \in DOMAIN d THEN d[k] ELSE store[k]]

(* reset() that leaves the backing file in place: a mutant *)
reset_keep_file(store, dir, file, other, fail) ==
    [store |-> EmptyStore, dir |-> dir, file |-> file, diag |-> fail # 0, outcome |-> OK]

(* GlobalState.reset.  other: the directory holds another file.           *)
(* fail = 1: os.remove raises; fail = 2: os.rmdir raises.                  *)
reset(store, dir, file, other, fail) ==
    IF file.exists /\ fail = 1
    THEN [store |-> EmptyStore, dir |-> dir, file |-> file, diag |-> TRUE, outcome |-> OK]
    ELSE IF dir /\ ~other
         THEN IF fail = 2
              THEN [store |-> EmptyStore, dir |-> dir, file |-> NoFile,
                    diag |-> TRUE, outcome |-> OK]
              ELSE [store |-> EmptyStore, dir |-> FALSE, file |-> NoFile,
                    diag |-> FALSE, outcome |-> OK]
         ELSE [store |-> EmptyStore, dir |-> dir, file |-> NoFile,
               diag |-> FALSE, outcome |-> OK]

ResetFailPoints == 0..2

(* the observation of the most recent call on the GlobalState *)
GsNoCall ==
    [op |-> "none", outcome |-> OK, diag |-> FALSE, prev |-> EmptyStore,
     afterSave |-> FALSE, afterReset |-> FALSE, fail |-> 0, hadFile |-> FALSE]

(* a GlobalState constructed over a directory that holds no backing file *)
GsNew(dir) ==
    [store |-> GlobalState(NoFile).store, dir |-> dir, file |-> NoFile,
     other |-> FALSE, last |-> GsNoCall, steps |-> 0]

GsIdle == gs = GsNew(TRUE)

----------------------------------------------------------------------------
(* class RunnerFactory (runners/runner_factory.py)                         *)
(*                                                                         *)
(* The registry _runners is a dict: the sequence of its entries in         *)
(* insertion order, one entry for each key.  A runner object is the        *)
(* record of its class and of the keyword arguments its constructor was    *)
(* called with.                                                            *)

TypeError == "TypeError"
UnknownRunnerError == "ValueError: Unknown runner type"

RunnerClasses == {"Runner", "ProgressRunner", "LocalRunner", "MockRunner1", "MockRunner2"}

(* the keyword arguments of a call: a mapping from their names *)
NoKwargs == [k \in {} |-> 0]

NoRunner == [cls |-> "none", kwargs |-> NoKwargs]

(* dict: keys(), `name in d`, d[name] and d[name] = value *)
keys(d) == [i \in 1..Len(d) |-> d[i].name]

has_key(d, name) == \E i \in 1..Len(d) : d[i].name = name

index_of(d, name) ==
    CHOOSE i \in 1..Len(d) :
        d[i].name = name /\ \A j \in 1..(i - 1) : d[j].name # name

getitem(d, name) == d[index_of(d, name)].cls

setitem(d, name, value) ==
    IF has_key(d, name) THEN [d EXCEPT ![index_of(d, name)].cls = value]
    ELSE Append(d, [name |-> name, cls |-> value])

(* register that keeps the earlier registration as well: a mutant *)
register_append(runners, name, runner_class) ==
    Append(runners, [name |-> name, cls |-> runner_class])

(* RunnerFactory.register(name, runner_class) *)
register(runners, name, runner_class) == setitem(runners, name, runner_class)

(* RunnerFactory.create: the signature is create(cls, name), so a call    *)
(* with any keyword argument fails before the body runs; the body looks   *)
(* the name up and calls the registered class with no argument.           *)
create(runners, name, kwargs) ==
    IF kwargs # NoKwargs
    THEN [outcome |-> TypeError, runner |-> NoRunner, names |-> <<>>]
    ELSE IF ~has_key(runners, name)
    THEN [outcome |-> UnknownRunnerError, runner |-> NoRunner, names |-> keys(runners)]
    ELSE [outcome |-> OK,
          runner |-> [cls |-> getitem(runners, name), kwargs |-> NoKwargs],
          names |-> <<>>]

(* RunnerFactory.available_runners() *)
available_runners(runners) == keys(runners)

(* runners/__init__.py: the registrations made when the package is        *)
(* imported                                                                *)
DefaultRegistrations ==
    << [name |-> "standard", cls |-> "Runner"],
       [name |-> "progress", cls |-> "ProgressRunner"],
       [name |-> "local", cls |-> "LocalRunner"] >>

RECURSIVE register_all(_, _)
register_all(runners, regs) ==
    IF regs = <<>> THEN runners
    ELSE register_all(register(runners, Head(regs).name, Head(regs).cls), Tail(regs))

(* the observation of the most recent call on the factory *)
RfNoCall ==
    [op |-> "none", name |-> "none", kwargs |-> NoKwargs, outcome |-> OK,
     runner |-> NoRunner, names |-> <<>>, prev |-> <<>>]

(* the factory after the package is imported; regs is the history of the  *)
(* register calls made so far                                              *)
RfImported ==
    [runners |-> register_all(<<>>, DefaultRegistrations),
     regs |-> DefaultRegistrations, last |-> RfNoCall, steps |-> 0]

RfIdle == rf = RfImported

----------------------------------------------------------------------------
(* Running commands: EnvManager.run (env_manager.py), ProgressRunner of    *)
(* progress_runner.py, and Runner, ProgressRunner and LocalRunner of       *)
(* env_manager/runners.                                                    *)
(*                                                                         *)
(* A command argument is a text, an argument list a sequence of texts, a   *)
(* shell command string one text; a path stands in a text as the run of    *)
(* its components.  The keyword arguments handed on to subprocess.run are  *)
(* a dict: a function from their names.                                    *)

NoCommandError == "ValueError: No command provided"
NotConfiguredError == "ValueError: Runner not configured with an environment manager"
IndexError == "IndexError"
CalledProcessError == "subprocess.CalledProcessError"
OSError == "OSError"
ExecuteError == "RuntimeError: Failed to execute command"
LocalExecuteError == "RuntimeError: Failed to execute local command"
NoError == "none"

(* str.lower() of a command name *)
str_lower(s) == IF s = <<"Python">> THEN <<"python">> ELSE s

(* " ".join(cmd_list) *)
RECURSIVE join_args(_)
join_args(cmd_list) ==
    IF cmd_list = <<>> THEN <<>>
    ELSE IF Len(cmd_list) = 1 THEN cmd_list[1]
    ELSE cmd_list[1] \o <<" ">> \o join_args(Tail(cmd_list))

(* list[i:] for the 0-based index i *)
slice_from(list, i) == SubSeq(list, i + 1, Len(list))

Bash == <<"/", "bin", "bash">>

(* the prepared command: a str or a list of str *)
ShellString(text) == [is_str |-> TRUE, text |-> text, argv |-> <<>>]
ArgList(argv) == [is_str |-> FALSE, text |-> <<>>, argv |-> argv]
NoCommand == ArgList(<<>>)

(* the f-string   source "{activate_script}" && {command}   *)
source_and(script, command) ==
    <<"source ", "\"">> \o script \o <<"\"", " && ">> \o command

(* dict.setdefault(k, v) *)
setdefault(d, k, v) == IF k \in DOMAIN d THEN d ELSE set_item(d, k, v)

(* kwargs.setdefault('text', True), ('check', True) and                   *)
(* ('capture_output', capture_output)                                      *)
default_kwargs(kwargs, capture_output) ==
    setdefault(setdefault(setdefault(kwargs, "text", TRUE), "check", TRUE),
               "capture_output", capture_output)

(* The interpreter chosen for a command named python by a prepare_command *)
(* that did not look at the disk: a mutant                                 *)
python_exe_unchecked(env, fs) == env.python

(* python_exe: self.env.python, unless no such file exists *)
python_exe(env, fs) == IF exists(fs, env.python) THEN env.python ELSE SysExecutable

(* the command looked up in the bin directory, else left as it is *)
cmd_path(env, fs, name) ==
    IF exists(fs, join(env.bin, name)) THEN join(env.bin, name) ELSE name

(* EnvManager.run, the preparation of the command inside its try block.   *)
(* It is reached with a non-empty cmd_list only.                           *)
run_prepare(env, fs, cmd_list, kwargs) ==
    LET script == join(env.bin, <<"activate">>) IN
    IF exists(fs, script)
    THEN [shell_cmd |-> ShellString(source_and(script, join_args(cmd_list))),
          kwargs |-> set_item(set_item(kwargs, "executable", Bash), "shell", TRUE)]
    ELSE [shell_cmd |->
              IF str_lower(cmd_list[1]) = <<"python">>
              THEN ArgList(<<python_exe(env, fs)>> \o slice_from(cmd_list, 1))
              ELSE ArgList(<<cmd_path(env, fs, cmd_list[1])>> \o slice_from(cmd_list, 1)),
          kwargs |-> set_item(kwargs, "shell", FALSE)]

(* ProgressRunner.prepare_command(cmd_args, kwargs) of progress_runner.py *)
prepare_command(env, fs, cmd_args, kwargs) ==
    LET cmd_list == cmd_args
        script == join(env.bin, <<"activate">>)
        is_python_c_command ==
            Len(cmd_list) >= 2 /\ cmd_list[1] = <<"python">> /\ cmd_list[2] = <<"-c">>
        python_code == join_args(slice_from(cmd_list, 2))
        cmd_part == IF is_python_c_command
                    THEN <<"python", " ", "-c", " ", "\"">> \o python_code \o <<"\"">>
                    ELSE join_args(cmd_list)
    IN IF exists(fs, script)
       THEN [outcome |-> OK,
             shell_cmd |-> ShellString(source_and(script, cmd_part)),
             kwargs |-> set_item(set_item(kwargs, "shell", TRUE), "executable", Bash)]
       ELSE IF cmd_list # <<>> /\ str_lower(cmd_list[1]) = <<"python">>
       THEN [outcome |-> OK,
             shell_cmd |-> ArgList(<<python_exe(env, fs)>> \o slice_from(cmd_list, 1)),
             kwargs |-> set_item(kwargs, "shell", FALSE)]
       ELSE IF cmd_list = <<>>
       THEN [outcome |-> IndexError, shell_cmd |-> NoCommand,
             kwargs |-> set_item(kwargs, "shell", FALSE)]
       ELSE [outcome |-> OK,
             shell_cmd |-> ArgList(<<cmd_path(env, fs, cmd_list[1])>> \o slice_from(cmd_list, 1)),
             kwargs |-> set_item(kwargs, "shell", FALSE)]

(* EnvManager._prepare_command of the arguments, capture_output and the  *)
(* options, the                                                           *)
(* routine the runners of env_manager/runners call: no command is an      *)
(* invalid-input error, else the command is prepared by the shared        *)
(* algorithm and the default execution options are applied.               *)
_prepare_command(env, fs, cmd_args, capture_output, kwargs) ==
    IF cmd_args = <<>>
    THEN [outcome |-> NoCommandError, shell_cmd |-> NoCommand, kwargs |-> kwargs]
    ELSE prepare_command(env, fs, cmd_args, default_kwargs(kwargs, capture_output))

(* how the process started by subprocess.run or Popen ends *)
ProcessOutcomes == {"exit 0", "exit 1", "OSError"}

returncode(proc) == IF proc = "exit 1" THEN 1 ELSE 0

(* subprocess.run(shell_cmd, **kwargs): check=True turns a non-zero exit  *)
(* into CalledProcessError                                                 *)
subprocess_run(proc, kwargs) ==
    IF proc = "OSError" THEN OSError
    ELSE IF proc = "exit 1" /\ "check" \in DOMAIN kwargs /\ kwargs["check"]
    THEN CalledProcessError
    ELSE OK

(* what a call of run() gives its caller; raised: the exception raised    *)
(* inside run's try block, cause: the __cause__ of the one that left run   *)
RunResult(outcome, cause, spawned, shell_cmd, kwargs, proc) ==
    [outcome |-> outcome, cause |-> cause, spawned |-> spawned,
     shell_cmd |-> shell_cmd, kwargs |-> kwargs,
     returncode |-> IF spawned /\ outcome \in {OK, CalledProcessError}
                    THEN returncode(proc) ELSE 0]

(* The two except clauses, with the first one left out: a mutant *)
run_except_wrap_all(e, wrapped) == [outcome |-> wrapped, cause |-> e]

(* The two except clauses of a run method: CalledProcessError is raised   *)
(* again, any other Exception is raised as a RuntimeError from it.        *)
run_except(e, wrapped) ==
    IF e = CalledProcessError THEN [outcome |-> e, cause |-> NoError]
    ELSE [outcome |-> wrapped, cause |-> e]

(* EnvManager.run of the arguments, capture_output and the options *)
EnvManager_run(env, fs, cmd_args, capture_output, kwargs, proc) ==
    IF cmd_args = <<>>
    THEN RunResult(NoCommandError, NoError, FALSE, NoCommand, kwargs, proc)
    ELSE LET p == run_prepare(env, fs, cmd_args, default_kwargs(kwargs, capture_output))
             e == subprocess_run(proc, p.kwargs)
             x == run_except(e, ExecuteError)
         IN IF e = OK THEN RunResult(OK, NoError, TRUE, p.shell_cmd, p.kwargs, proc)
            ELSE RunResult(x.outcome, x.cause, TRUE, p.shell_cmd, p.kwargs, proc)

(* Runner.run of the arguments, capture_output and the options; bound:    *)
(* with_env                                                                *)
(* was called                                                              *)
Runner_run(bound, env, fs, cmd_args, capture_output, kwargs, proc) ==
    IF ~bound
    THEN RunResult(NotConfiguredError, NoError, FALSE, NoCommand, kwargs, proc)
    ELSE LET p == _prepare_command(env, fs, cmd_args, capture_output, kwargs)
             e == IF p.outcome # OK THEN p.outcome ELSE subprocess_run(proc, p.kwargs)
             x == run_except(e, ExecuteError)
         IN IF e = OK THEN RunResult(OK, NoError, TRUE, p.shell_cmd, p.kwargs, proc)
            ELSE RunResult(x.outcome, x.cause, p.outcome = OK, p.shell_cmd, p.kwargs, proc)

(* ProgressRunner.run of env_manager/runners: check is taken out of the   *)
(* options, the process is run without it, and CalledProcessError is      *)
(* raised by the runner itself once the status line is updated.           *)
ProgressRunner_run(bound, env, fs, cmd_args, capture_output, kwargs, proc) ==
    IF ~bound
    THEN RunResult(NotConfiguredError, NoError, FALSE, NoCommand, kwargs, proc)
    ELSE LET p == _prepare_command(env, fs, cmd_args, capture_output, kwargs)
             check_enabled == "check" \in DOMAIN p.kwargs /\ p.kwargs["check"]
             run_kwargs == del_item(p.kwargs, "check")
             r == subprocess_run(proc, run_kwargs)
             e == IF p.outcome # OK THEN p.outcome
                  ELSE IF r # OK THEN r
                  ELSE IF check_enabled /\ returncode(proc) # 0 THEN CalledProcessError
                  ELSE OK
             x == run_except(e, ExecuteError)
         IN IF e = OK THEN RunResult(OK, NoError, TRUE, p.shell_cmd, run_kwargs, proc)
            ELSE RunResult(x.outcome, x.cause, p.outcome = OK, p.shell_cmd, run_kwargs, proc)

(* LocalRunner.run: base_exe is what find_base_executable() returned, or  *)
(* None                                                                    *)
LocalRunner_run(cmd_args, capture_output, kwargs, base_exe, proc) ==
    IF cmd_args = <<>>
    THEN RunResult(NoCommandError, NoError, FALSE, NoCommand, kwargs, proc)
    ELSE LET kw == default_kwargs(kwargs, capture_output)
             exe == IF base_exe = None THEN SysExecutable ELSE base_exe
             shell_cmd == IF str_lower(cmd_args[1]) = <<"python">>
                          THEN ArgList(<<exe>> \o slice_from(cmd_args, 1))
                          ELSE ArgList(cmd_args)
             e == subprocess_run(proc, kw)
             x == run_except(e, LocalExecuteError)
         IN IF e = OK THEN RunResult(OK, NoError, TRUE, shell_cmd, kw, proc)
            ELSE RunResult(x.outcome, x.cause, TRUE, shell_cmd, kw, proc)

(* the observation of the most recent call *)
RnNoCall ==
    [op |-> "none", bound |-> FALSE, args |-> <<>>, given |-> NoKwargs,
     proc |-> "exit 0", res |-> RunResult(OK, NoError, FALSE, NoCommand, NoKwargs, "exit 0")]

(* an environment, the files of it that exist, and no call made yet;      *)
(* spawned counts the processes started                                    *)
RnNew(env, fs) ==
    [env |-> env, files |-> fs, last |-> RnNoCall, spawned |-> 0, steps |-> 0]

RnIdle == rn = RnNew(Environment(V1, EmptyEnv), {})

----------------------------------------------------------------------------
(* class PythonLocal (env_local.py)                                        *)
(*                                                                         *)
(* The world w of an instance fixes what its file checks and subprocess    *)
(* calls meet: whether python_path is sys.executable, the file at          *)
(* python_path, the outcome of each subprocess.run, pyvenv.cfg, and which  *)
(* of the searched places hold an executable file.  Paths are resolved     *)
(* without symbolic links.                                                 *)

PermissionError == "PermissionError"
TimeoutExpired == "subprocess.TimeoutExpired"

(* the exceptions that are subprocess.SubprocessError *)
SubprocessErrors == {CalledProcessError, TimeoutExpired}

(* the candidates the four search methods build *)
HomeExe == <<"/", "opt", "py", "python">>            \* home of pyvenv.cfg
BasePrefixExe == <<"/", "opt", "py", "bin", "python3">>
CommonExe == <<"/", "usr", "bin", "python3">>
PathExe == <<"/", "usr", "local", "bin", "python">>

dirname(p) == IF Len(p) > 1 THEN SubSeq(p, 1, Len(p) - 1) ELSE p

(* subprocess.run([python_path, ...], check=True, timeout=...): a missing *)
(* file and a file without the execute bit fail in the exec itself        *)
run_python_path(w, out) ==
    IF w.interp = "missing" THEN FileNotFoundError
    ELSE IF w.interp = "not executable" THEN PermissionError
    ELSE out

(* a returned value or a raised exception *)
Returned(v) == [ret |-> v, exc |-> NoError]
Raised(e) == [ret |-> None, exc |-> e]

(* PythonLocal._get_prefix: except (SubprocessError, TimeoutExpired) falls *)
(* back to the directory above bin                                         *)
_get_prefix(w) ==
    LET r == run_python_path(w, w.prefix_run) IN
    IF r = "ok" \/ r \in SubprocessErrors THEN Returned(<<"/", "venv">>)
    ELSE Raised(r)

(* PythonLocal._get_version *)
_get_version(w) ==
    LET r == run_python_path(w, w.version_run) IN
    IF r = "ok" \/ r \in SubprocessErrors THEN Returned(<<"3.0">>)
    ELSE Raised(r)

(* METHOD 1: the home line of pyvenv.cfg; IOError and UnicodeDecodeError  *)
(* are swallowed                                                           *)
method1(w) == IF w.cfg = "home with exe" THEN <<HomeExe>> ELSE <<>>

(* METHOD 2: the base prefix, from sys for the current interpreter, else  *)
(* by running python_path                                                  *)
method2(w) ==
    IF w.is_current
    THEN Returned(IF w.base_exe THEN <<BasePrefixExe>> ELSE <<>>)
    ELSE LET r == run_python_path(w, w.base_prefix_run) IN
         IF r = "ok" THEN Returned(IF w.base_exe THEN <<BasePrefixExe>> ELSE <<>>)
         ELSE IF r \in SubprocessErrors THEN Returned(<<>>)
         ELSE Raised(r)

(* METHOD 3: the common system locations, only when nothing was found *)
method3(w, possible) ==
    IF possible = <<>> /\ w.common_exe THEN <<CommonExe>> ELSE possible

(* METHOD 4: the directories of PATH, only when nothing was found; the    *)
(* candidate is run to tell a system interpreter from a virtual one and   *)
(* is kept when that run fails with a SubprocessError                     *)
method4(w, possible) ==
    IF possible = <<>> /\ w.path_exe
    THEN IF w.path_check_run = "ok" \/ w.path_check_run \in SubprocessErrors
         THEN Returned(<<PathExe>>)
         ELSE Raised(w.path_check_run)
    ELSE Returned(possible)

(* the verification pass: exe --version; SubprocessError and              *)
(* PermissionError skip the candidate.  i counts the candidates run.      *)
RECURSIVE verify(_, _, _, _)
verify(w, possible, i, unique) ==
    IF possible = <<>> THEN Returned(unique)
    ELSE LET r == w.verify_run[i] IN
         IF r = "ok"
         THEN verify(w, Tail(possible), i + 1, Append(unique, Head(possible)))
         ELSE IF r \in SubprocessErrors \cup {PermissionError}
              THEN verify(w, Tail(possible), i + 1, unique)
              ELSE Raised(r)

(* PythonLocal.find_base_executable: [self, ret, exc] *)
find_base_executable(self, w) ==
    IF self._base_executable # None
    THEN [self |-> self] @@ Returned(self._base_executable)
    ELSE IF w.is_current /\ ~w.venv_attrs
    THEN [self |-> self] @@ Returned(None)
    ELSE
    LET prefix == IF w.is_current THEN Returned(SysPrefix) ELSE _get_prefix(w)
        version == IF w.is_current THEN Returned(<<"3.0">>) ELSE _get_version(w)
        m2 == method2(w)
        m4 == method4(w, method3(w, method1(w) \o m2.ret))
        checked == verify(w, m4.ret, 1, <<>>)
        found == IF checked.ret = <<>> THEN None ELSE Head(checked.ret)
    IN  IF prefix.exc # NoError THEN [self |-> self] @@ Raised(prefix.exc)
        ELSE IF version.exc # NoError THEN [self |-> self] @@ Raised(version.exc)
        ELSE IF m2.exc # NoError THEN [self |-> self] @@ Raised(m2.exc)
        ELSE IF m4.exc # NoError THEN [self |-> self] @@ Raised(m4.exc)
        ELSE IF checked.exc # NoError THEN [self |-> self] @@ Raised(checked.exc)
        ELSE [self |-> [self EXCEPT !._base_executable = found]] @@ Returned(found)

(* PythonLocal.get_base_name: [self, ret, exc] *)
get_base_name(self, w) ==
    IF self._base_folder # None
    THEN [self |-> self] @@ Returned(self._base_folder)
    ELSE LET r == find_base_executable(self, w)
             exe_dir == dirname(r.ret)
             base_folder == IF basename(exe_dir) = "bin" THEN dirname(exe_dir)
                            ELSE exe_dir
         IN  IF r.exc # NoError \/ r.ret = None THEN r
             ELSE [self |-> [r.self EXCEPT !._base_folder = base_folder]]
                  @@ Returned(base_folder)

(* PythonLocal.__init__ *)
PythonLocal == [_base_executable |-> None, _base_folder |-> None]

(* the world of an instance nothing is asked of *)
NoWorld ==
    [is_current |-> TRUE, venv_attrs |-> FALSE, interp |-> "executable",
     prefix_run |-> "ok", version_run |-> "ok", base_prefix_run |-> "ok",
     cfg |-> "absent", base_exe |-> FALSE, common_exe |-> FALSE,
     path_exe |-> FALSE, path_check_run |-> "ok", verify_run |-> <<"ok", "ok">>]

PlNew(w) ==
    [self |-> PythonLocal, w |-> w, op |-> "none", ret |-> None,
     exc |-> NoError, n |-> 0]

PlIdle == pl = PlNew(NoWorld)

----------------------------------------------------------------------------
(* The dev_tools command line (dev_tools.py)                               *)

DevToolsError == "DevToolsError"
PackageNotInstalledError == "PackageNotInstalledError"
ReleaseError == "ReleaseError"

(* class DevToolsError and its subclasses: what `except DevToolsError`    *)
(* catches                                                                 *)
DevToolsErrors == {DevToolsError, PackageNotInstalledError, ReleaseError}
KeyboardInterrupt == "KeyboardInterrupt"
OtherException == "Exception"

(* what handle_command does with a command: it returns or it raises; a    *)
(* CalledProcessError carries the command's returncode                     *)
Returns == [exc |-> NoError, returncode |-> 0]
Raises(e) == [exc |-> e, returncode |-> 0]
CommandFailed(code) == [exc |-> CalledProcessError, returncode |-> code]

(* class ExitStatus: the module-level exit_status *)
ExitStatus == [exit_code |-> 0, exception |-> NoError]

(* the except clauses of main(): the exit_status they record and the      *)
(* argument of sys.exit                                                    *)
main_except(h) ==
    IF h.exc \in DevToolsErrors \cup {KeyboardInterrupt}
    THEN [exit_status |-> [exit_code |-> 1, exception |-> h.exc], code |-> 2]
    ELSE IF h.exc = CalledProcessError
    THEN [exit_status |-> [exit_code |-> h.returncode, exception |-> h.exc], code |-> 1]
    ELSE [exit_status |-> [exit_code |-> 1, exception |-> h.exc], code |-> 1]

(* main(): argv is "none" (no command), "help" or "command".  The result  *)
(* tells whether atexit.register(exit_handler, globalState) was reached.   *)
main(argv, h) ==
    IF argv = "none" THEN [exit_status |-> ExitStatus, code |-> 1, registered |-> FALSE]
    ELSE IF argv = "help"
    THEN [exit_status |-> ExitStatus, code |-> 0, registered |-> FALSE]
    ELSE IF h.exc = NoError
    THEN [exit_status |-> ExitStatus, code |-> 0, registered |-> TRUE]
    ELSE [registered |-> TRUE] @@ main_except(h)

(* exit_handler(state): state.reset() when the recorded exit_code is 2;   *)
(* reset's own failures are logged.  st is the persisted state.           *)
exit_handler(exit_status, st, fail) ==
    LET error == exit_status.exit_code IN
    IF error = 2
    THEN LET r == reset(st.store, st.dir, st.file, st.other, fail) IN
         [store |-> r.store, dir |-> r.dir, file |-> r.file, other |-> st.other]
    ELSE st

(* Setup.get_env_manager: globalState["loaded"] = True; globalState.save() *)
LoadedKey == <<"loaded">>

loaded_saved(st) ==
    LET store == update(st.store, [k \in {LoadedKey} |-> PyBool(TRUE)])
        options == set_options(NoOptions, store, <<LoadedKey>>)
    IN  [st EXCEPT !.store = store,
                   !.file = TextFile(<< <<"[state]">> >>
                                     \o write_options(options, <<LoadedKey>>))]

(* globalState = GlobalState(APP_PATH) over a directory without a file *)
FreshState == [store |-> GlobalState(NoFile).store, dir |-> TRUE, file |-> NoFile,
               other |-> FALSE]

DtNew(st) ==
    [pc |-> "start", argv |-> "none", handler |-> Returns, exit_status |-> ExitStatus,
     code |-> 0, registered |-> FALSE, state |-> st, atExit |-> st]

DtIdle == dt = DtNew(FreshState)

----------------------------------------------------------------------------
(* ProgressRunner.run of runners/progress_runner.py, thread by thread      *)
(*                                                                         *)
(* pc is the place of the calling thread, timer that of the thread running *)
(* update_timer.  The child writes whole lines into two pipes that hold a  *)
(* bounded number of lines; a write into a full pipe and a readline on an  *)
(* empty pipe that is still open block.                                    *)

(* a child that writes errs lines to stderr and outs lines to stdout, in   *)
(* the order given by errFirst, and exits with returncode                  *)
Child(outs, errs, errFirst, code) ==
    [outs |-> outs, errs |-> errs, errFirst |-> errFirst, returncode |-> code,
     exited |-> FALSE]

NoChild == [Child(0, 0, FALSE, 0) EXCEPT !.exited = TRUE]

(* the stream the child writes to next: "stdout", "stderr" or "none" *)
next_write(child) ==
    IF child.errFirst
    THEN IF child.errs > 0 THEN "stderr" ELSE IF child.outs > 0 THEN "stdout" ELSE "none"
    ELSE IF child.outs > 0 THEN "stdout" ELSE IF child.errs > 0 THEN "stderr" ELSE "none"

SpinNew ==
    [pc |-> "not called", inline |-> FALSE, check_enabled |-> FALSE,
     timer |-> "not started", stop_event |-> FALSE, joined |-> FALSE,
     child |-> NoChild, stdout |-> 0, stderr |-> 0,
     stdout_data |-> 0, stderr_data |-> 0, returncode |-> 0, exc |-> NoError]

SpinIdle == spin = SpinNew

----------------------------------------------------------------------------
(* ProgressRunner.run_with_capture of progress_runner.py                   *)
(*                                                                         *)
(* readable is what process.stdout.readable() and                          *)
(* process.stderr.readable() answer: TRUE for the pipes of a Popen, which  *)
(* stay open stream objects at end of file.                                *)

(* the label of the completed bar *)
completed_output(return_code) ==
    IF return_code = 0 THEN <<"Completed">> ELSE <<"Failed (code ", return_code, ")">>

BarNew ==
    [pc |-> "not called", readable |-> TRUE, child |-> NoChild, written |-> <<0, 0>>,
     stdout |-> 0, stderr |-> 0, polled |-> FALSE, return_code |-> 0,
     stdout_buffer |-> 0, stderr_buffer |-> 0, completed |-> 0, output |-> <<>>,
     result |-> <<>>]

BarIdle == bar = BarNew

----------------------------------------------------------------------------
(* no call made yet on the two managers used together *)
NestIdle == nest = <<>>

----------------------------------------------------------------------------
(* The state machine of specification Spec *)

SysLib == <<"/", "usr", "lib", "python3">>

(* the values other code of the process gives the variables it sets *)
MarkerValues == {V1Dot, V2, LocalRoot}
InitMarkerValues == {V1Dot, LocalRoot}
TestValues == {<<"test_value">>}

ExternalValues(k) == IF k = "VIRTUAL_ENV" THEN MarkerValues ELSE TestValues
ExternalVars == {"VIRTUAL_ENV", "TEST_VAR"}

(* the length of the runs explored: calls on the managers plus changes    *)
(* other code makes to os.environ                                          *)
MaxSteps == 4

Step == steps < MaxSteps /\ steps' = steps + 1 /\ UNCHANGED <<pm, cmds, gs, rf, rn, nest, cl, pl, dt, spin, bar>>

NoCall ==
    [op |-> "none", m |-> "none", outcome |-> OK, result |-> FALSE,
     wasActive |-> FALSE, fail |-> 0, repeat |-> FALSE,
     preEnv |-> EmptyEnv, prePath |-> <<>>, preFiles |-> {},
     events |-> <<>>,
     afterActivate |-> FALSE, rtWasActive |-> FALSE,
     rtEnv |-> EmptyEnv, rtPath |-> <<>>]

NoScope ==
    [phase |-> "none", m |-> "none", yielded |-> "none", bodyRaised |-> FALSE,
     deactivate_calls |-> 0, outcome |-> OK]

(* A call on manager m.  wasActive: m was active when the call began;     *)
(* repeat: the call before it was the same call on m and returned.        *)
Call(op, m) ==
    [NoCall EXCEPT !.op = op, !.m = m, !.wasActive = is_active(mgr[m], environ),
                   !.repeat = (last.op = op /\ last.m = m /\ last.outcome = OK)]

(* the same, with the process state the call started in *)
CallFrom(op, m) ==
    [Call(op, m) EXCEPT !.preEnv = environ, !.prePath = syspath, !.preFiles = files]

(* EnvManager.__init__(path): the Environment is resolved, the process   *)
(* state is snapshotted and, for a virtual environment, _create_venv      *)
(* materialises it on disk.  The result is the object and the disk.       *)
EnvManager(path, env, sp, fs) ==
    LET e == Environment(path, env) IN
    [self |-> [constructed |-> TRUE, env |-> e,
               original_env |-> env, original_path |-> sp],
     files |-> IF e.is_virtual THEN fs \cup venv_files(e) ELSE fs]

(* what the process state may be when the managers are constructed *)
InitEnvirons ==
    {e \in [{"PATH"} -> {<< <<"/", "usr", "bin">> >>}] \cup
           [{"PATH", "VIRTUAL_ENV"} -> {<< <<"/", "usr", "bin">> >>} \cup InitMarkerValues] :
        /\ e["PATH"] = << <<"/", "usr", "bin">> >>
        /\ "VIRTUAL_ENV" \in DOMAIN e => e["VIRTUAL_ENV"] \in InitMarkerValues}

InitFiles ==
    {{}, {LocalRoot, join(LocalRoot, <<"bin">>), join(LocalRoot, <<"bin", "activate">>)}}

(* The state after construction: m1 is constructed, then m2, from one     *)
(* process state.                                                          *)
EnvInit ==
    /\ environ \in InitEnvirons
    /\ syspath = <<SysLib>>
    /\ \E p1 \in PathArgs("m1") : \E p2 \in PathArgs("m2") :
       \E fs \in IF p2 = LocalRoot THEN InitFiles ELSE {{}} :
          LET c1 == EnvManager(p1, environ, syspath, fs)
              c2 == EnvManager(p2, environ, syspath, c1.files)
          IN /\ mgr = [m \in Managers |-> IF m = "m1" THEN c1.self ELSE c2.self]
             /\ files = c2.files
    /\ last = NoCall
    /\ scope = NoScope
    /\ steps = 0

Init == EnvInit /\ PkgIdle /\ GsIdle /\ RfIdle /\ RnIdle /\ NestIdle /\ ClIdle /\ PlIdle /\ DtIdle /\ SpinIdle /\ BarIdle

(* Code outside the library sets or deletes a process variable *)
ExternalSet(k, v) ==
    /\ Step
    /\ environ' = set_item(environ, k, v)
    /\ environ' # environ
    /\ last' = [NoCall EXCEPT !.op = "external"]
    /\ UNCHANGED <<syspath, files, mgr, scope>>

ExternalDel(k) ==
    /\ Step
    /\ k \in DOMAIN environ
    /\ environ' = del_item(environ, k)
    /\ last' = [NoCall EXCEPT !.op = "external"]
    /\ UNCHANGED <<syspath, files, mgr, scope>>

IsActive(m) ==
    /\ Step
    /\ last' = [Call("is_active", m) EXCEPT !.result = is_active(mgr[m], environ)]
    /\ UNCHANGED <<environ, syspath, files, mgr, scope>>

Activate(m, fail) ==
    /\ Step
    /\ LET r == activate(mgr[m], environ, syspath, files, fail) IN
       /\ fail # 0 => r.outcome # OK
       /\ environ' = r.environ
       /\ syspath' = r.syspath
       /\ mgr' = [mgr EXCEPT ![m] = r.self]
       /\ last' = [CallFrom("activate", m) EXCEPT !.outcome = r.outcome,
                                                  !.fail = IF r.outcome = OK THEN 0 ELSE fail]
    /\ UNCHANGED <<files, scope>>

Deactivate(m, fail) ==
    /\ Step
    /\ LET r == deactivate(mgr[m], environ, syspath, fail) IN
       /\ fail # 0 => r.outcome # OK
       /\ environ' = r.environ
       /\ syspath' = r.syspath
       /\ last' = IF last.op = "activate" /\ last.m = m /\ last.outcome = OK
                  THEN [Call("deactivate", m) EXCEPT
                           !.outcome = r.outcome, !.afterActivate = TRUE,
                           !.rtWasActive = last.wasActive,
                           !.rtEnv = last.preEnv, !.rtPath = last.prePath]
                  ELSE [Call("deactivate", m) EXCEPT !.outcome = r.outcome]
    /\ UNCHANGED <<files, mgr, scope>>

Remove(m, dfail, rmfail) ==
    /\ Step
    /\ LET r == remove(mgr[m], environ, syspath, files, dfail, rmfail) IN
       /\ dfail # 0 => r.outcome = DeactivateError
       /\ rmfail # 0 => r.outcome = RemoveError
       /\ environ' = r.environ
       /\ syspath' = r.syspath
       /\ files' = r.files
       /\ last' = [CallFrom("remove", m) EXCEPT !.outcome = r.outcome,
                                                !.events = r.events]
    /\ UNCHANGED <<mgr, scope>>

(* `with manager as env:` -- __enter__ runs; if it raises the body is     *)
(* never entered and __exit__ is not called.                               *)
ScopeEnter(m, fail) ==
    /\ Step
    /\ scope.phase # "body"
    /\ LET r == enter(m, mgr[m], environ, syspath, files, fail) IN
       /\ fail # 0 => r.outcome # OK
       /\ environ' = r.environ
       /\ syspath' = r.syspath
       /\ mgr' = [mgr EXCEPT ![m] = r.self]
       /\ last' = [Call("enter", m) EXCEPT !.outcome = r.outcome]
       /\ scope' = IF r.outcome = OK
                   THEN [NoScope EXCEPT !.phase = "body", !.m = m, !.yielded = r.value]
                   ELSE [NoScope EXCEPT !.phase = "not entered", !.m = m,
                                        !.outcome = r.outcome]
    /\ UNCHANGED files

(* The body ends, normally or by raising, and __exit__ runs *)
ScopeExit(raised, fail) ==
    /\ Step
    /\ scope.phase = "body"
    /\ LET m == scope.m
           r == exit(mgr[m], environ, syspath, raised, fail)
       IN /\ fail # 0 => r.outcome # OK
          /\ environ' = r.environ
          /\ syspath' = r.syspath
          /\ last' = [Call("exit", m) EXCEPT !.outcome = r.outcome]
          /\ scope' = [scope EXCEPT
                          !.phase = "left",
                          !.bodyRaised = raised,
                          !.deactivate_calls = @ + r.deactivate_calls,
                          !.outcome = IF r.outcome # OK THEN r.outcome
                                      ELSE IF raised /\ ~r.suppress THEN BodyError
                                      ELSE OK]
    /\ UNCHANGED <<files, mgr>>

External ==
    \/ \E k \in ExternalVars : \E v \in ExternalValues(k) : ExternalSet(k, v)
    \/ \E k \in ExternalVars : ExternalDel(k)

(* Spec: the calls made on the managers one by one *)
Next ==
    \/ External
    \/ \E m \in Managers : IsActive(m)
    \/ \E m \in Managers : \E f \in ActivateFailPoints : Activate(m, f)
    \/ \E m \in Managers : \E f \in DeactivateFailPoints : Deactivate(m, f)
    \/ \E m \in Managers : \E d \in DeactivateFailPoints : \E f \in RemoveFailPoints :
          Remove(m, d, f)

Spec == Init /\ [][Next]_vars

(* SpecScope: the managers used in with statements, whose bodies change   *)
(* os.environ and may deactivate by hand                                   *)
NextScope ==
    \/ External
    \/ \E m \in Managers : \E f \in ActivateFailPoints : ScopeEnter(m, f)
    \/ \E m \in Managers : \E f \in DeactivateFailPoints : Deactivate(m, f)
    \/ \E raised \in BOOLEAN : \E f \in DeactivateFailPoints : ScopeExit(raised, f)

SpecScope == Init /\ [][NextScope]_vars

----------------------------------------------------------------------------
(* The state machine of specification SpecPkg *)

(* the calls of install() and uninstall() a body makes itself *)
MaxBodyCalls == 1

EnvIdle ==
    /\ environ = [k \in {"PATH"} |-> << <<"/", "usr", "bin">> >>]
    /\ syspath = <<SysLib>>
    /\ LET c1 == EnvManager(V1Rel, environ, syspath, {})
           c2 == EnvManager(V2, environ, syspath, c1.files)
       IN /\ mgr = [m \in Managers |-> IF m = "m1" THEN c1.self ELSE c2.self]
          /\ files = c2.files
    /\ last = NoCall
    /\ scope = NoScope
    /\ steps = 0

(* a PackageManager with a runner, or constructed with runner=None *)
InitPkg ==
    /\ EnvIdle
    /\ pm \in {[NoWith EXCEPT !.runner = r] : r \in BOOLEAN}
    /\ cmds = <<>>
    /\ GsIdle
    /\ RfIdle
    /\ RnIdle
    /\ NestIdle
    /\ ClIdle
    /\ PlIdle
    /\ DtIdle
    /\ SpinIdle
    /\ BarIdle

envvars == <<environ, syspath, files, mgr, last, scope, steps, gs, rf, rn, nest, cl, pl, dt, spin, bar>>

(* PackageManager.install_pkg: the with statement evaluates               *)
(* its expression.                                                         *)
InstallPkg(packages) ==
    /\ pm.pc = "idle"
    /\ IF ~pm.runner \/ packages = <<>>
       THEN pm' = [pm EXCEPT !.pc = "not constructed", !.outcome = ValueError]
       ELSE pm' = [pm EXCEPT !.pc = "constructed",
                             !.cm = InstallPkgContextManager(packages)]
    /\ UNCHANGED <<cmds, envvars>>

(* the with statement calls __enter__; if it raises, neither the body nor *)
(* __exit__ runs                                                           *)
Enter(failAt) ==
    /\ pm.pc = "constructed"
    /\ failAt <= Len(pm.cm.packages)
    /\ LET r == cm_enter(pm.runner, pm.cm, cmds, failAt) IN
       /\ cmds' = r.cmds
       /\ pm' = [pm EXCEPT !.cm = r.cm,
                           !.pc = IF r.outcome = OK THEN "body" ELSE "not entered",
                           !.outcome = r.outcome]
    /\ UNCHANGED envvars

(* the body calls pm.install(x) or pm.uninstall(x) itself and handles    *)
(* the error the call may raise; pm.outcome is how that call ended        *)
BodyInstall(x, ok) ==
    /\ pm.pc = "body"
    /\ pm.bodyCalls < MaxBodyCalls
    /\ LET r == install(pm.runner, cmds, x, <<>>, ok, "body") IN
       /\ cmds' = r.cmds
       /\ pm' = [pm EXCEPT !.bodyCalls = @ + 1, !.outcome = r.outcome]
    /\ UNCHANGED envvars

BodyUninstall(x, ok) ==
    /\ pm.pc = "body"
    /\ pm.bodyCalls < MaxBodyCalls
    /\ LET r == uninstall(pm.runner, cmds, x, ok, "body") IN
       /\ cmds' = r.cmds
       /\ pm' = [pm EXCEPT !.bodyCalls = @ + 1, !.outcome = r.outcome]
    /\ UNCHANGED envvars

(* the body ends, normally or by raising, and the with statement calls    *)
(* __exit__                                                                *)
Exit(raised, failAt) ==
    /\ pm.pc = "body"
    /\ failAt <= Len(pm.cm.packages)
    /\ LET r == cm_exit(pm.runner, pm.cm, cmds, failAt) IN
       /\ cmds' = r.cmds
       /\ pm' = [pm EXCEPT !.pc = "left", !.bodyRaised = raised,
                           !.outcome = IF r.outcome # OK THEN r.outcome
                                       ELSE IF raised THEN BodyError ELSE OK]
    /\ UNCHANGED envvars

NextPkg ==
    \/ \E ps \in PackageTuples \cup {<<>>} : InstallPkg(ps)
    \/ \E f \in 0..MaxPkgs : Enter(f)
    \/ \E x \in Packages : \E ok \in BOOLEAN : BodyInstall(x, ok)
    \/ \E x \in Packages : \E ok \in BOOLEAN : BodyUninstall(x, ok)
    \/ \E raised \in BOOLEAN : \E f \in 0..MaxPkgs : Exit(raised, f)

SpecPkg == InitPkg /\ [][NextPkg]_vars

----------------------------------------------------------------------------
(* The state machine of specification SpecState *)

(* the calls made on GlobalState objects and the changes other programs   *)
(* make to the configuration directory                                     *)
MaxGsSteps == 3

(* the dicts given to update(): any value under one key, and two values   *)
(* under any two keys                                                      *)
Updates ==
    UNION ({[{k} -> StoredValues] : k \in StoredKeys}
           \cup {[{k1, k2} -> {PyInt(1), PyStr(<<"a">>)}] : k1, k2 \in StoredKeys})

(* what another program writes to the backing file *)
ExternalFiles ==
    { << <<"garbage">> >>,
      << <<"[state]">>, <<"a", " = ", "\"", "%", "\"">> >>,
      << <<"[other]">>, <<"b", " = ", "1">> >>,
      << <<"[state]">>, <<"a", " = ", "{", "notjson">>, <<"b", " = ", "2">> >> }

nongs == <<environ, syspath, files, mgr, last, scope, steps, pm, cmds, rf, rn, nest, cl, pl, dt, spin, bar>>

GsStep == gs.steps < MaxGsSteps /\ UNCHANGED nongs

(* state.update(d) *)
GsUpdate(d) ==
    /\ GsStep
    /\ gs' = [gs EXCEPT !.store = update(@, d),
                        !.last = [GsNoCall EXCEPT !.op = "update"],
                        !.steps = @ + 1]

GsSave(order) ==
    /\ GsStep
    /\ order \in InsertionOrders(gs.store)
    /\ LET r == save(gs.store, gs.dir, gs.file, order) IN
       gs' = [gs EXCEPT !.file = r.file,
                        !.last = [GsNoCall EXCEPT !.op = "save", !.outcome = r.outcome,
                                                  !.prev = gs.store],
                        !.steps = @ + 1]

(* GlobalState(app_name, config_dir) again, with the same arguments *)
GsConstruct ==
    /\ GsStep
    /\ LET r == GlobalState(gs.file)
           afterReset == gs.last.op = "reset" /\ ~gs.last.diag
       IN gs' = [gs EXCEPT
                    !.store = r.store,
                    !.last = [GsNoCall EXCEPT
                                 !.op = "construct", !.diag = r.diag,
                                 !.prev = gs.store,
                                 !.afterSave = (gs.last.op = "save" /\ gs.last.outcome = OK),
                                 !.afterReset = afterReset,
                                 !.hadFile = (afterReset /\ gs.last.hadFile)],
                    !.steps = @ + 1]

GsLoad ==
    /\ GsStep
    /\ LET r == load(gs.store, gs.file) IN
       gs' = [gs EXCEPT !.store = r.store,
                        !.last = [GsNoCall EXCEPT !.op = "load", !.diag = r.diag,
                                                  !.prev = gs.store],
                        !.steps = @ + 1]

GsReset(fail) ==
    /\ GsStep
    /\ LET r == reset(gs.store, gs.dir, gs.file, gs.other, fail) IN
       /\ fail # 0 => r.diag
       /\ gs' = [gs EXCEPT !.store = r.store, !.dir = r.dir, !.file = r.file,
                           !.last = [GsNoCall EXCEPT
                                        !.op = "reset", !.outcome = r.outcome,
                                        !.diag = r.diag, !.prev = gs.store,
                                        !.fail = fail, !.hadFile = gs.file.exists],
                           !.steps = @ + 1]

(* another program writes the backing file *)
GsExternalWrite(lines) ==
    /\ GsStep
    /\ gs.dir
    /\ gs' = [gs EXCEPT !.file = TextFile(lines),
                        !.last = [GsNoCall EXCEPT !.op = "external"],
                        !.steps = @ + 1]

(* another program puts a file of its own into the directory *)
GsExternalOther ==
    /\ GsStep
    /\ gs.dir
    /\ ~gs.other
    /\ gs' = [gs EXCEPT !.other = TRUE,
                        !.last = [GsNoCall EXCEPT !.op = "external"],
                        !.steps = @ + 1]

InitState ==
    /\ EnvIdle
    /\ PkgIdle
    /\ gs \in {GsNew(dir) : dir \in BOOLEAN}
    /\ RfIdle
    /\ RnIdle
    /\ NestIdle
    /\ ClIdle
    /\ PlIdle
    /\ DtIdle
    /\ SpinIdle
    /\ BarIdle

NextState ==
    \/ \E d \in Updates : GsUpdate(d)
    \/ \E order \in Orders : GsSave(order)
    \/ GsConstruct
    \/ GsLoad
    \/ \E f \in ResetFailPoints : GsReset(f)
    \/ \E lines \in ExternalFiles : GsExternalWrite(lines)
    \/ GsExternalOther

SpecState == InitState /\ [][NextState]_vars

----------------------------------------------------------------------------
(* The state machine of specification SpecFactory *)

(* the calls made on RunnerFactory after the package is imported *)
MaxFactoryCalls == 3

(* the names and classes other code registers, the names it asks for and  *)
(* the keyword arguments it gives to create                                *)
RegisterNames == {"standard", "mock"}
RegisterClasses == {"ProgressRunner", "MockRunner1", "MockRunner2"}
CreateNames == {"standard", "progress", "mock", "unknown"}
CreateKwargs == {NoKwargs, [k \in {"inline_output"} |-> 2]}

nonrf == <<environ, syspath, files, mgr, last, scope, steps, pm, cmds, gs, rn, nest, cl, pl, dt, spin, bar>>

RfStep == rf.steps < MaxFactoryCalls /\ UNCHANGED nonrf

(* RunnerFactory.register(name, runner_class) *)
Register(name, runner_class) ==
    /\ RfStep
    /\ rf' = [rf EXCEPT
                 !.runners = register(@, name, runner_class),
                 !.regs = Append(@, [name |-> name, cls |-> runner_class]),
                 !.last = [RfNoCall EXCEPT !.op = "register", !.name = name,
                                           !.prev = rf.runners],
                 !.steps = @ + 1]

(* RunnerFactory.create(name, **kwargs) as the caller writes it *)
Create(name, kwargs) ==
    /\ RfStep
    /\ LET r == create(rf.runners, name, kwargs) IN
       rf' = [rf EXCEPT
                 !.last = [RfNoCall EXCEPT !.op = "create", !.name = name,
                                           !.kwargs = kwargs, !.outcome = r.outcome,
                                           !.runner = r.runner, !.names = r.names,
                                           !.prev = rf.runners],
                 !.steps = @ + 1]

(* RunnerFactory.available_runners() *)
AvailableRunners ==
    /\ RfStep
    /\ rf' = [rf EXCEPT
                 !.last = [RfNoCall EXCEPT !.op = "available",
                                           !.names = available_runners(rf.runners),
                                           !.prev = rf.runners],
                 !.steps = @ + 1]

InitFactory ==
    /\ EnvIdle
    /\ PkgIdle
    /\ GsIdle
    /\ RfIdle
    /\ RnIdle
    /\ NestIdle
    /\ ClIdle
    /\ PlIdle
    /\ DtIdle
    /\ SpinIdle
    /\ BarIdle

NextFactory ==
    \/ \E name \in RegisterNames : \E c \in RegisterClasses : Register(name, c)
    \/ \E name \in CreateNames : \E kwargs \in CreateKwargs : Create(name, kwargs)
    \/ AvailableRunners

SpecFactory == InitFactory /\ [][NextFactory]_vars

----------------------------------------------------------------------------
(* The state machine of specification SpecRun *)

(* the calls of run and prepare_command made *)
MaxRunCalls == 1

(* the commands asked for: none, a script, inline code, the interpreter   *)
(* named with a capital, and a command of the bin directory                *)
CmdArgs ==
    { <<>>,
      << <<"python">>, <<"script.py">> >>,
      << <<"python">>, <<"-c">>, <<"print(1)">> >>,
      << <<"Python">>, <<"-V">> >>,
      << <<"pip">>, <<"install">>, <<"pkg">> >> }

(* the options the caller gives: none, or check=False *)
CallerKwargs == {NoKwargs, [k \in {"check"} |-> FALSE]}

(* what PythonLocal().find_base_executable() returns *)
BaseExecutables == {None, <<"/", "opt", "python", "bin", "python3">>}

(* a virtual and a local environment, and which of the files the          *)
(* preparation looks for exist                                             *)
RunEnvs == {Environment(V1, EmptyEnv), Environment(LocalRoot, EmptyEnv)}

RunFiles(env) ==
    SUBSET {join(env.bin, <<"activate">>), env.python, join(env.bin, <<"pip">>)}

nonrn == <<environ, syspath, files, mgr, last, scope, steps, pm, cmds, gs, rf, nest, cl, pl, dt, spin, bar>>

RnStep == rn.steps < MaxRunCalls /\ UNCHANGED nonrn

RnCalled(op, bound, args, given, proc, res) ==
    rn' = [rn EXCEPT
              !.last = [op |-> op, bound |-> bound, args |-> args, given |-> given,
                        proc |-> proc, res |-> res],
              !.spawned = @ + (IF res.spawned THEN 1 ELSE 0),
              !.steps = @ + 1]

(* manager.run(...) on an EnvManager of the environment *)
RunEnvManager(args, capture_output, kwargs, proc) ==
    /\ RnStep
    /\ RnCalled("EnvManager.run", TRUE, args, kwargs, proc,
                EnvManager_run(rn.env, rn.files, args, capture_output, kwargs, proc))

(* Runner().run(...), or Runner().with_env(manager).run(...) *)
RunStandard(bound, args, capture_output, kwargs, proc) ==
    /\ RnStep
    /\ RnCalled("Runner.run", bound, args, kwargs, proc,
                Runner_run(bound, rn.env, rn.files, args, capture_output, kwargs, proc))

(* the same calls on a ProgressRunner of env_manager/runners *)
RunProgress(bound, args, capture_output, kwargs, proc) ==
    /\ RnStep
    /\ RnCalled("ProgressRunner.run", bound, args, kwargs, proc,
                ProgressRunner_run(bound, rn.env, rn.files, args, capture_output, kwargs, proc))

(* LocalRunner().with_env(manager).run(...) *)
RunLocal(args, capture_output, kwargs, base_exe, proc) ==
    /\ RnStep
    /\ RnCalled("LocalRunner.run", TRUE, args, kwargs, proc,
                LocalRunner_run(args, capture_output, kwargs, base_exe, proc))

(* ProgressRunner(logger, env).prepare_command(cmd_args, kwargs) of       *)
(* progress_runner.py: nothing is run                                      *)
PrepareCommand(args, kwargs) ==
    /\ RnStep
    /\ LET p == prepare_command(rn.env, rn.files, args, kwargs) IN
       RnCalled("prepare_command", TRUE, args, kwargs, "exit 0",
                RunResult(p.outcome, NoError, FALSE, p.shell_cmd, p.kwargs, "exit 0"))

InitRun ==
    /\ EnvIdle
    /\ PkgIdle
    /\ GsIdle
    /\ RfIdle
    /\ \E env \in RunEnvs : \E fs \in RunFiles(env) : rn = RnNew(env, fs)
    /\ NestIdle
    /\ ClIdle
    /\ PlIdle
    /\ DtIdle
    /\ SpinIdle
    /\ BarIdle

NextRun ==
    \/ \E args \in CmdArgs, c \in BOOLEAN, kwargs \in CallerKwargs, proc \in ProcessOutcomes :
          RunEnvManager(args, c, kwargs, proc)
    \/ \E bound \in BOOLEAN, args \in CmdArgs, c \in BOOLEAN, kwargs \in CallerKwargs,
          proc \in ProcessOutcomes :
          RunStandard(bound, args, c, kwargs, proc)
    \/ \E bound \in BOOLEAN, args \in CmdArgs, c \in BOOLEAN, kwargs \in CallerKwargs,
          proc \in ProcessOutcomes :
          RunProgress(bound, args, c, kwargs, proc)
    \/ \E args \in CmdArgs, c \in BOOLEAN, kwargs \in CallerKwargs,
          base_exe \in BaseExecutables, proc \in ProcessOutcomes :
          RunLocal(args, c, kwargs, base_exe, proc)
    \/ \E args \in CmdArgs, kwargs \in CallerKwargs : PrepareCommand(args, kwargs)

SpecRun == InitRun /\ [][NextRun]_vars

----------------------------------------------------------------------------
(* The state machine of specification SpecNested: two virtual managers    *)
(* with different roots, activated and deactivated in any order, among    *)
(* changes other code makes to the marker variable.  nest[i] is the i-th  *)
(* step: the call, whether the manager was active when it began, the      *)
(* process state it began in and the one it left.                         *)

(* the calls and outside changes of a run *)
MaxNestCalls == 5

nonnest == <<files, last, scope, steps, pm, cmds, gs, rf, rn, cl, pl, dt, spin, bar>>

NestStep == Len(nest) < MaxNestCalls /\ UNCHANGED nonnest

Nested(op, m, env2, sp2) ==
    nest' = Append(nest, [op |-> op, m |-> m,
                          wasActive |-> m \in Managers /\ is_active(mgr[m], environ),
                          preEnv |-> environ, prePath |-> syspath,
                          environ |-> env2, syspath |-> sp2])

(* manager.activate(), returning normally *)
NestActivate(m) ==
    /\ NestStep
    /\ LET r == activate(mgr[m], environ, syspath, files, 0) IN
       /\ environ' = r.environ
       /\ syspath' = r.syspath
       /\ mgr' = [mgr EXCEPT ![m] = r.self]
       /\ Nested("activate", m, r.environ, r.syspath)

(* manager.deactivate(), returning normally *)
NestDeactivate(m) ==
    /\ NestStep
    /\ LET r == deactivate(mgr[m], environ, syspath, 0) IN
       /\ environ' = r.environ
       /\ syspath' = r.syspath
       /\ Nested("deactivate", m, r.environ, r.syspath)
    /\ UNCHANGED mgr

(* other code sets the marker variable, or deletes it *)
NestExternalSet(v) ==
    /\ NestStep
    /\ environ' = set_item(environ, "VIRTUAL_ENV", v)
    /\ environ' # environ
    /\ Nested("external", "none", environ', syspath)
    /\ UNCHANGED <<syspath, mgr>>

NestExternalDel ==
    /\ NestStep
    /\ "VIRTUAL_ENV" \in DOMAIN environ
    /\ environ' = del_item(environ, "VIRTUAL_ENV")
    /\ Nested("external", "none", environ', syspath)
    /\ UNCHANGED <<syspath, mgr>>

(* m1 is constructed on /v1 and m2 on /v2, from a process state in which  *)
(* the marker is unset or names the root of m1                             *)
InitNested ==
    /\ environ \in {e \in InitEnvirons :
                       "VIRTUAL_ENV" \in DOMAIN e => e["VIRTUAL_ENV"] = V1Dot}
    /\ syspath = <<SysLib>>
    /\ LET c1 == EnvManager(V1Rel, environ, syspath, {})
           c2 == EnvManager(V2, environ, syspath, c1.files)
       IN /\ mgr = [m \in Managers |-> IF m = "m1" THEN c1.self ELSE c2.self]
          /\ files = c2.files
    /\ last = NoCall
    /\ scope = NoScope
    /\ steps = 0
    /\ PkgIdle
    /\ GsIdle
    /\ RfIdle
    /\ RnIdle
    /\ NestIdle
    /\ ClIdle
    /\ PlIdle
    /\ DtIdle
    /\ SpinIdle
    /\ BarIdle

NextNested ==
    \/ \E m \in Managers : NestActivate(m)
    \/ \E m \in Managers : NestDeactivate(m)
    \/ \E v \in {V1Dot, V2} : NestExternalSet(v)
    \/ NestExternalDel

SpecNested == InitNested /\ [][NextNested]_vars

----------------------------------------------------------------------------
(* The state machine of specification SpecClassify: Environment.is_local  *)
(* of either class applied to a path                                       *)

(* the most components a classified path has after its root or start *)
MaxPathLen == 3

PathNames ==
    {"usr", "local", "bin", "opt", "homebrew", "Library", "Frameworks",
     "Python.framework", "anaconda3", "miniconda", "venv"}

(* absolute and relative paths *)
ClassifiedPaths ==
    UNION {[1..n -> PathNames] : n \in 1..MaxPathLen}
    \cup {<<"/">> \o p : p \in UNION {[1..n -> PathNames] : n \in 0..MaxPathLen}}

noncl == <<environ, syspath, files, mgr, last, scope, steps, pm, cmds, gs, rf, rn, nest, pl, dt, spin, bar>>

(* Environment.is_local(path) of env_manager.py *)
IsLocalManager ==
    /\ cl.cls = "none"
    /\ cl' = [cl EXCEPT !.cls = "env_manager.Environment", !.result = is_local(cl.path)]
    /\ UNCHANGED noncl

(* Environment.is_local(path) of environment.py *)
IsLocalExported ==
    /\ cl.cls = "none"
    /\ cl' = [cl EXCEPT !.cls = "environment.Environment",
                        !.result = Environment_is_local(cl.path)]
    /\ UNCHANGED noncl

InitClassify ==
    /\ EnvIdle
    /\ PkgIdle
    /\ GsIdle
    /\ RfIdle
    /\ RnIdle
    /\ NestIdle
    /\ cl \in {[ClNoCall EXCEPT !.path = p] : p \in ClassifiedPaths}
    /\ PlIdle
    /\ DtIdle
    /\ SpinIdle
    /\ BarIdle

NextClassify == IsLocalManager \/ IsLocalExported

SpecClassify == InitClassify /\ [][NextClassify]_vars

----------------------------------------------------------------------------
(* The state machine of specification SpecLocate: calls on one PythonLocal *)
(* instance in a world that stays as it is                                 *)

(* the most calls made on the instance *)
MaxLocateCalls == 2

RunOutcomes == {"ok", CalledProcessError, TimeoutExpired}

(* what running a candidate that passed isfile and os.access can give: a  *)
(* script whose interpreter line names a missing file fails with           *)
(* FileNotFoundError                                                       *)
CandidateOutcomes == RunOutcomes \cup {PermissionError, FileNotFoundError}

PyvenvCfgs ==
    {"absent", "IOError", "UnicodeDecodeError", "no home", "home without exe",
     "home with exe"}

(* the places searched and the candidates' runs, whoever asks *)
SearchWorlds ==
    {[NoWorld EXCEPT !.cfg = c, !.base_exe = b, !.common_exe = u, !.path_exe = p,
                     !.path_check_run = k, !.verify_run = <<v1, v2>>] :
        c \in PyvenvCfgs, b \in BOOLEAN, u \in BOOLEAN, p \in BOOLEAN,
        k \in CandidateOutcomes, v1 \in CandidateOutcomes,
        v2 \in {"ok", CalledProcessError}}

(* python_path is sys.executable, or another path that is missing, lacks  *)
(* the execute bit, or is an interpreter whose runs end in any way        *)
LocateWorlds ==
    {[w EXCEPT !.venv_attrs = a] : w \in SearchWorlds, a \in BOOLEAN}
    \cup {[NoWorld EXCEPT !.is_current = FALSE, !.interp = i] :
             i \in {"missing", "not executable"}}
    \cup {[w EXCEPT !.is_current = FALSE, !.prefix_run = r1, !.version_run = r2,
                    !.base_prefix_run = r3] :
             w \in SearchWorlds, r1 \in RunOutcomes,
             r2 \in {"ok", CalledProcessError}, r3 \in {"ok", CalledProcessError}}

nonpl == <<environ, syspath, files, mgr, last, scope, steps, pm, cmds, gs, rf, rn, nest, cl, dt, spin, bar>>

PlStep == pl.n < MaxLocateCalls /\ UNCHANGED nonpl

PlCalled(op, r) ==
    pl' = [pl EXCEPT !.self = r.self, !.op = op, !.ret = r.ret, !.exc = r.exc,
                     !.n = @ + 1]

(* pl.find_base_executable() *)
FindBaseExecutable ==
    /\ PlStep
    /\ PlCalled("find_base_executable", find_base_executable(pl.self, pl.w))

(* pl.get_base_name() *)
GetBaseName ==
    /\ PlStep
    /\ PlCalled("get_base_name", get_base_name(pl.self, pl.w))

InitLocate ==
    /\ EnvIdle
    /\ PkgIdle
    /\ GsIdle
    /\ RfIdle
    /\ RnIdle
    /\ NestIdle
    /\ ClIdle
    /\ pl \in {PlNew(w) : w \in LocateWorlds}
    /\ DtIdle
    /\ SpinIdle
    /\ BarIdle

NextLocate == FindBaseExecutable \/ GetBaseName

SpecLocate == InitLocate /\ [][NextLocate]_vars

----------------------------------------------------------------------------
(* The state machine of specification SpecDevTools: one run of the        *)
(* dev_tools command line, from main() to the atexit handlers              *)

(* the largest returncode a failed command reports *)
MaxReturnCode == 4

HandlerOutcomes ==
    {Returns, Raises(KeyboardInterrupt), Raises(OtherException)}
    \cup {Raises(e) : e \in DevToolsErrors}
    \cup {CommandFailed(code) : code \in 1..MaxReturnCode}

Argvs == {"none", "help", "command"}

nondt == <<environ, syspath, files, mgr, last, scope, steps, pm, cmds, gs, rf, rn, nest, cl, pl, spin, bar>>

(* main() with the arguments argv.  h: what handle_command does; setup:   *)
(* the command got its manager from Setup.get_env_manager, which saves the *)
(* state, before that.                                                     *)
DtMain(argv, h, setup) ==
    /\ dt.pc = "start"
    /\ argv # "command" => h = Returns /\ ~setup
    /\ LET r == main(argv, h) IN
       dt' = [dt EXCEPT !.pc = "exiting", !.argv = argv, !.handler = h,
                        !.exit_status = r.exit_status, !.code = r.code,
                        !.registered = r.registered,
                        !.state = IF setup THEN loaded_saved(@) ELSE @]
    /\ UNCHANGED nondt

(* the interpreter exits: the registered exit_handler runs *)
DtExit(fail) ==
    /\ dt.pc = "exiting"
    /\ fail # 0 => dt.registered /\ dt.exit_status.exit_code = 2
    /\ dt' = [dt EXCEPT !.pc = "exited", !.atExit = dt.state,
                        !.state = IF dt.registered
                                  THEN exit_handler(dt.exit_status, @, fail) ELSE @]
    /\ UNCHANGED nondt

InitDevTools ==
    /\ EnvIdle
    /\ PkgIdle
    /\ GsIdle
    /\ RfIdle
    /\ RnIdle
    /\ NestIdle
    /\ ClIdle
    /\ PlIdle
    /\ dt \in {DtNew([st EXCEPT !.other = o]) :
                  st \in {FreshState, loaded_saved(FreshState)}, o \in BOOLEAN}
    /\ SpinIdle
    /\ BarIdle

NextDevTools ==
    \/ \E argv \in Argvs, h \in HandlerOutcomes, setup \in BOOLEAN : DtMain(argv, h, setup)
    \/ \E fail \in ResetFailPoints : DtExit(fail)

SpecDevTools == InitDevTools /\ [][NextDevTools]_vars

----------------------------------------------------------------------------
(* The state machine of specification SpecSpinner: one call of             *)
(* ProgressRunner.run (runners/progress_runner.py) with its timer thread   *)
(* and its child process                                                   *)

(* the lines a pipe holds before a write to it blocks *)
PipeCapacity == 2

(* the most lines the child writes to one stream *)
MaxOutput == 4

ReturnCodes == {0, 1}

nonspin ==
    <<environ, syspath, files, mgr, last, scope, steps, pm, cmds, gs, rf, rn, nest, cl,
      pl, dt, bar>>

(* run() up to timer_thread.start(): check is popped from run_kwargs *)
SpinStart(inline, check) ==
    /\ spin.pc = "not called"
    /\ spin' = [spin EXCEPT !.pc = IF inline THEN "Popen" ELSE "subprocess.run",
                            !.inline = inline, !.check_enabled = check,
                            !.timer = "check"]
    /\ UNCHANGED nonspin

(* update_timer: `while not stop_event.is_set()` *)
TimerCheck ==
    /\ spin.timer = "check"
    /\ spin' = [spin EXCEPT !.timer = IF spin.stop_event THEN "ended" ELSE "update"]
    /\ UNCHANGED nonspin

(* update_timer: status.update(update_status()) returns *)
TimerUpdate ==
    /\ spin.timer = "update"
    /\ spin' = [spin EXCEPT !.timer = "sleep"]
    /\ UNCHANGED nonspin

(* update_timer: time.sleep(0.1) is over *)
TimerSleep ==
    /\ spin.timer = "sleep"
    /\ spin' = [spin EXCEPT !.timer = "check"]
    /\ UNCHANGED nonspin

(* subprocess.run(shell_cmd, env=os.environ, ...) without inline output:  *)
(* it returns the result or raises                                         *)
SubprocessRun(code, exc) ==
    /\ spin.pc = "subprocess.run"
    /\ spin' = [spin EXCEPT !.pc = "finally", !.returncode = code, !.exc = exc]
    /\ UNCHANGED nonspin

(* subprocess.Popen(shell_cmd, stdout=PIPE, stderr=PIPE, text=True, ...) *)
Popen(child, exc) ==
    /\ spin.pc = "Popen"
    /\ spin' = IF exc = NoError
               THEN [spin EXCEPT !.pc = "read stdout", !.child = child]
               ELSE [spin EXCEPT !.pc = "finally", !.exc = exc]
    /\ UNCHANGED nonspin

(* the child writes one line, when the pipe has room for it *)
ChildWrite ==
    /\ ~spin.child.exited
    /\ \/ /\ next_write(spin.child) = "stdout"
          /\ spin.stdout < PipeCapacity
          /\ spin' = [spin EXCEPT !.stdout = @ + 1, !.child.outs = @ - 1]
       \/ /\ next_write(spin.child) = "stderr"
          /\ spin.stderr < PipeCapacity
          /\ spin' = [spin EXCEPT !.stderr = @ + 1, !.child.errs = @ - 1]
    /\ UNCHANGED nonspin

(* the child has written everything and exits: its ends of the pipes close *)
ChildExit ==
    /\ ~spin.child.exited
    /\ next_write(spin.child) = "none"
    /\ spin' = [spin EXCEPT !.child.exited = TRUE]
    /\ UNCHANGED nonspin

(* read_pipe(process.stdout): one readline; '' at end of file ends it *)
ReadStdout ==
    /\ spin.pc = "read stdout"
    /\ spin.stdout > 0 \/ spin.child.exited
    /\ spin' = IF spin.stdout > 0
               THEN [spin EXCEPT !.stdout = @ - 1, !.stdout_data = @ + 1]
               ELSE [spin EXCEPT !.pc = "read stderr"]
    /\ UNCHANGED nonspin

(* read_pipe(process.stderr, is_stderr=True) *)
ReadStderr ==
    /\ spin.pc = "read stderr"
    /\ spin.stderr > 0 \/ spin.child.exited
    /\ spin' = IF spin.stderr > 0
               THEN [spin EXCEPT !.stderr = @ - 1, !.stderr_data = @ + 1]
               ELSE [spin EXCEPT !.pc = "wait"]
    /\ UNCHANGED nonspin

(* returncode = process.wait() and the CompletedProcess made of it *)
ProcessWait ==
    /\ spin.pc = "wait"
    /\ spin.child.exited
    /\ spin' = [spin EXCEPT !.pc = "finally", !.returncode = spin.child.returncode]
    /\ UNCHANGED nonspin

(* finally: stop_event.set() *)
StopEventSet ==
    /\ spin.pc = "finally"
    /\ spin' = [spin EXCEPT !.pc = "join", !.stop_event = TRUE]
    /\ UNCHANGED nonspin

(* timer_thread.join(timeout=1.0) returns because the thread has ended *)
JoinEnded ==
    /\ spin.pc = "join"
    /\ spin.timer = "ended"
    /\ spin' = [spin EXCEPT !.pc = "after", !.joined = TRUE]
    /\ UNCHANGED nonspin

(* timer_thread.join(timeout=1.0) returns because the second is over: the *)
(* sleep of the thread is shorter, so the thread is in a status.update    *)
(* that has not returned                                                   *)
JoinTimeout ==
    /\ spin.pc = "join"
    /\ spin.timer = "update"
    /\ spin' = [spin EXCEPT !.pc = "after"]
    /\ UNCHANGED nonspin

(* after the finally block: the exception travels on, or check_enabled    *)
(* and a non-zero returncode raise CalledProcessError, or run returns      *)
RunEnds ==
    /\ spin.pc = "after"
    /\ spin' = IF spin.exc # NoError THEN [spin EXCEPT !.pc = "raised"]
               ELSE IF spin.check_enabled /\ spin.returncode # 0
               THEN [spin EXCEPT !.pc = "raised", !.exc = CalledProcessError]
               ELSE [spin EXCEPT !.pc = "returned"]
    /\ UNCHANGED nonspin

Children ==
    {Child(outs, errs, errFirst, code) :
        outs \in 0..MaxOutput, errs \in 0..MaxOutput, errFirst \in BOOLEAN,
        code \in ReturnCodes}

InitSpinner ==
    /\ EnvIdle
    /\ PkgIdle
    /\ GsIdle
    /\ RfIdle
    /\ RnIdle
    /\ NestIdle
    /\ ClIdle
    /\ PlIdle
    /\ DtIdle
    /\ SpinIdle
    /\ BarIdle

NextSpinner ==
    \/ \E inline, check \in BOOLEAN : SpinStart(inline, check)
    \/ TimerCheck
    \/ TimerUpdate
    \/ TimerSleep
    \/ \E code \in ReturnCodes : SubprocessRun(code, NoError)
    \/ \E exc \in {OSError, TimeoutExpired} : SubprocessRun(0, exc)
    \/ \E child \in Children, exc \in {NoError, OSError} : Popen(child, exc)
    \/ ChildWrite
    \/ ChildExit
    \/ ReadStdout
    \/ ReadStderr
    \/ ProcessWait
    \/ StopEventSet
    \/ JoinEnded
    \/ JoinTimeout
    \/ RunEnds

SpecSpinner == InitSpinner /\ [][NextSpinner]_vars

----------------------------------------------------------------------------
(* The state machine of specification SpecBar: one call of                 *)
(* ProgressRunner.run_with_capture (progress_runner.py) and its child      *)

nonbar ==
    <<environ, syspath, files, mgr, last, scope, steps, pm, cmds, gs, rf, rn, nest, cl,
      pl, dt, spin>>

(* run_with_capture(process, progress, task_id, cmd_list) is called *)
BarStart(child, readable) ==
    /\ bar.pc = "not called"
    /\ bar' = [bar EXCEPT !.pc = "poll", !.child = child, !.readable = readable,
                          !.written = <<child.outs, child.errs>>]
    /\ UNCHANGED nonbar

(* the child writes one line, when the pipe has room for it *)
BarChildWrite ==
    /\ ~bar.child.exited
    /\ \/ /\ next_write(bar.child) = "stdout"
          /\ bar.stdout < PipeCapacity
          /\ bar' = [bar EXCEPT !.stdout = @ + 1, !.child.outs = @ - 1]
       \/ /\ next_write(bar.child) = "stderr"
          /\ bar.stderr < PipeCapacity
          /\ bar' = [bar EXCEPT !.stderr = @ + 1, !.child.errs = @ - 1]
    /\ UNCHANGED nonbar

BarChildExit ==
    /\ ~bar.child.exited
    /\ next_write(bar.child) = "none"
    /\ bar' = [bar EXCEPT !.child.exited = TRUE]
    /\ UNCHANGED nonbar

(* return_code = process.poll(); the break of line 208 needs a pipe       *)
(* attribute that is None, which a process started with two pipes has not *)
BarPoll ==
    /\ bar.pc = "poll"
    /\ bar' = [bar EXCEPT !.pc = "read stdout", !.polled = bar.child.exited,
                          !.return_code = IF bar.child.exited
                                          THEN bar.child.returncode ELSE 0]
    /\ UNCHANGED nonbar

(* line = process.stdout.readline(): a line, or '' at end of file *)
BarReadStdout ==
    /\ bar.pc = "read stdout"
    /\ bar.stdout > 0 \/ bar.child.exited
    /\ bar' = IF bar.stdout > 0
              THEN [bar EXCEPT !.pc = "read stderr", !.stdout = @ - 1,
                               !.stdout_buffer = @ + 1]
              ELSE [bar EXCEPT !.pc = "read stderr"]
    /\ UNCHANGED nonbar

(* line = process.stderr.readline() *)
BarReadStderr ==
    /\ bar.pc = "read stderr"
    /\ bar.stderr > 0 \/ bar.child.exited
    /\ bar' = IF bar.stderr > 0
              THEN [bar EXCEPT !.pc = "check", !.stderr = @ - 1, !.stderr_buffer = @ + 1]
              ELSE [bar EXCEPT !.pc = "check"]
    /\ UNCHANGED nonbar

(* progress.update, the sleep, and the test that ends the loop: with      *)
(* return_code set it breaks when neither stream is readable()            *)
BarCheck ==
    /\ bar.pc = "check"
    /\ bar' = [bar EXCEPT !.pc = IF bar.polled /\ ~bar.readable THEN "complete"
                                 ELSE "poll"]
    /\ UNCHANGED nonbar

(* after the loop: the bar is completed and the CompletedProcess returned *)
BarComplete ==
    /\ bar.pc = "complete"
    /\ bar' = [bar EXCEPT !.pc = "returned", !.completed = 100,
                          !.output = completed_output(bar.return_code),
                          !.result = <<bar.return_code, bar.stdout_buffer,
                                       bar.stderr_buffer>>]
    /\ UNCHANGED nonbar

InitBar ==
    /\ EnvIdle
    /\ PkgIdle
    /\ GsIdle
    /\ RfIdle
    /\ RnIdle
    /\ NestIdle
    /\ ClIdle
    /\ PlIdle
    /\ DtIdle
    /\ SpinIdle
    /\ BarIdle

NextBar ==
    \/ \E child \in Children, readable \in BOOLEAN : BarStart(child, readable)
    \/ BarChildWrite
    \/ BarChildExit
    \/ BarPoll
    \/ BarReadStdout
    \/ BarReadStderr
    \/ BarCheck
    \/ BarComplete

SpecBar == InitBar /\ [][NextBar]_vars

----------------------------------------------------------------------------
(* Claims about EnvManager *)

LastMgr == mgr[last.m]

MarkerNamesRoot(self, env) ==
    "VIRTUAL_ENV" \in DOMAIN env /\ abspath(env["VIRTUAL_ENV"]) = abspath(self.env.root)

(* the call just made was deactivate(), right after an activate() of the  *)
(* same virtual manager, and both returned                                 *)
RoundTripDone ==
    /\ last.op = "deactivate"
    /\ last.afterActivate
    /\ last.outcome = OK
    /\ LastMgr.env.is_virtual

(* C1 as stated: for any virtual manager and any contents of os.environ   *)
(* and sys.path, activate() then deactivate() leaves both exactly as they *)
(* were immediately before activate().                                     *)
C1_RoundTripAlways ==
    RoundTripDone => environ = last.rtEnv /\ syspath = last.rtPath

(* C1 amended: the round trip holds for a virtual manager that is not     *)
(* already active when activate() is called, also when os.environ was     *)
(* changed between construction and activate().                            *)
C1_RoundTripWhenInactive ==
    RoundTripDone /\ ~last.rtWasActive =>
        environ = last.rtEnv /\ syspath = last.rtPath

(* C1 witness: a manager was activated from a table that had changed      *)
(* since its construction, and its deactivate() restored that table.      *)
C1_Witness ==
    /\ RoundTripDone
    /\ ~last.rtWasActive
    /\ last.wasActive
    /\ "TEST_VAR" \in DOMAIN last.rtEnv
    /\ "VIRTUAL_ENV" \in DOMAIN last.rtEnv

(* C2: after deactivate() was called on an active manager and returned,   *)
(* VIRTUAL_ENV no longer names that manager's root: is_active() is false. *)
C2_InactiveAfterDeactivate ==
    last.op = "deactivate" /\ last.wasActive /\ last.outcome = OK =>
        ~MarkerNamesRoot(LastMgr, environ)

(* C3: for a virtual environment is_active() returns true exactly when    *)
(* VIRTUAL_ENV is set and its absolute path is the absolute path of the   *)
(* manager's root.                                                         *)
C3_IsActiveIffMarkerNamesRoot ==
    last.op = "is_active" /\ LastMgr.env.is_virtual =>
        (last.result <=> MarkerNamesRoot(LastMgr, environ))

(* C3 witness: is_active() answered true for a marker spelled differently *)
(* from the root it names.                                                 *)
C3_Witness ==
    /\ last.op = "is_active"
    /\ LastMgr.env.is_virtual
    /\ last.result
    /\ environ["VIRTUAL_ENV"] # LastMgr.env.root

(* C4: is_active() of a manager whose environment is not virtual returns  *)
(* false in every process state.                                           *)
C4_NonVirtualNeverActive ==
    last.op = "is_active" /\ ~LastMgr.env.is_virtual => ~last.result

(* C5: when activate() raises its activation-failure error, os.environ    *)
(* and sys.path are what they were when that call began, and VIRTUAL_ENV  *)
(* does not name the manager's root.                                       *)
C5_FailedActivateRestores ==
    last.op = "activate" /\ last.outcome = ActivateError =>
        /\ environ = last.preEnv
        /\ syspath = last.prePath
        /\ ~MarkerNamesRoot(LastMgr, environ)

(* C5 witness: activate() failed after VIRTUAL_ENV and PATH had been set  *)
C5_Witness ==
    /\ last.op = "activate"
    /\ last.outcome = ActivateError
    /\ last.fail >= 3

(* C7: an activate() that directly follows an activate() of the same      *)
(* manager changes neither os.environ, nor sys.path, nor the snapshot.    *)
C7_SecondActivateChangesNothing ==
    [][\A m \in Managers :
          (last.op = "activate" /\ last.m = m /\ last.outcome = OK
           /\ \E f \in ActivateFailPoints : Activate(m, f))
          => UNCHANGED <<environ, syspath, mgr>>]_vars

(* C7 witness: activate() was called twice in a row on an active manager  *)
C7_Witness ==
    /\ last.op = "activate"
    /\ last.repeat
    /\ last.wasActive
    /\ LastMgr.env.is_virtual

(* C8: activate() of a manager whose environment is not virtual leaves    *)
(* VIRTUAL_ENV, PATH and sys.path unchanged, whatever is in its bin       *)
(* directory.                                                              *)
C8_NonVirtualActivateNoOp ==
    last.op = "activate" /\ ~LastMgr.env.is_virtual =>
        environ = last.preEnv /\ syspath = last.prePath

C6_ScopeDeactivatesOnce ==
    /\ scope.phase = "body" => scope.yielded = scope.m
    /\ last.op = "enter" /\ last.outcome = OK
       /\ exists(files, activate_script(LastMgr)) => MarkerNamesRoot(LastMgr, environ)
    /\ scope.phase = "left" =>
          /\ scope.deactivate_calls = 1
          /\ scope.bodyRaised => scope.outcome # OK

(* C6 witness: a body raised inside an activated scope, which was left *)
C6_Witness ==
    /\ scope.phase = "left"
    /\ scope.bodyRaised
    /\ scope.outcome = BodyError
    /\ last.wasActive

----------------------------------------------------------------------------
(* Claims about Environment.is_local (specification SpecClassify) *)

(* the path ends with the components s, a separator before them *)
EndsWithDir(p, s) ==
    Len(p) > Len(s) /\ \A i \in 1..Len(s) : p[Len(p) - Len(s) + i] = s[i]

(* the documented POSIX patterns: /usr(/local)?$, /usr(/local)?/bin$,     *)
(* /opt/homebrew/bin$, /Library/Frameworks/Python\.framework and          *)
(* /(ana|mini)conda3?/bin$                                                 *)
DocumentedLocal(p) ==
    \/ EndsWithDir(p, <<"usr">>)
    \/ EndsWithDir(p, <<"usr", "local">>)
    \/ EndsWithDir(p, <<"usr", "bin">>)
    \/ EndsWithDir(p, <<"usr", "local", "bin">>)
    \/ EndsWithDir(p, <<"opt", "homebrew", "bin">>)
    \/ \E i \in 2..(Len(p) - 2) :
          p[i] = "Library" /\ p[i + 1] = "Frameworks" /\ p[i + 2] = "Python.framework"
    \/ \E c \in {"anaconda", "anaconda3", "miniconda", "miniconda3"} :
          EndsWithDir(p, <<c, "bin">>)

(* C22: Environment.is_local(p) is true exactly for the paths that match  *)
(* one of the documented local-install patterns, a bare /usr or           *)
(* /usr/local root included, for the Environment class EnvManager uses as *)
(* well as for the exported one.                                           *)
C22_IsLocalIffDocumentedPattern ==
    cl.cls # "none" => (cl.result <=> DocumentedLocal(cl.path))

----------------------------------------------------------------------------
(* Claims about PythonLocal (specification SpecLocate) *)

(* C21: PythonLocal never raises: for every interpreter path, one that    *)
(* does not exist or is not executable included, and every outcome of its *)
(* subprocess calls and file reads, find_base_executable() and            *)
(* get_base_name() return a path or the absent value, never an exception. *)
C21_NeverRaises ==
    pl.op # "none" => pl.exc = NoError /\ (pl.ret = None \/ isabs(pl.ret))

----------------------------------------------------------------------------
(* Claims about the dev_tools command line (specification SpecDevTools) *)

(* a command was given and handle_command raised *)
CommandRaised == dt.pc # "start" /\ dt.argv = "command" /\ dt.handler.exc # NoError

(* C23: the dev_tools entry point exits with code 2 after a DevToolsError *)
(* or a KeyboardInterrupt, with the failed command's own exit code after  *)
(* a CalledProcessError, and with code 1 after any other exception.       *)
C23_ExitCodeByException ==
    CommandRaised =>
        dt.code = IF dt.handler.exc \in DevToolsErrors \cup {KeyboardInterrupt} THEN 2
                  ELSE IF dt.handler.exc = CalledProcessError THEN dt.handler.returncode
                  ELSE 1

(* the persisted state after a reset: nothing stored, no backing file *)
StateReset(st) == st.store = EmptyStore /\ ~st.file.exists

(* C24: when a dev_tools run ends with exit code 2 the exit handler       *)
(* resets the persisted GlobalState; with any other exit code the         *)
(* persisted state is left untouched.                                     *)
C24_ResetIffExitCode2 ==
    dt.pc = "exited" =>
        IF dt.code = 2 THEN StateReset(dt.state) ELSE dt.state = dt.atExit

----------------------------------------------------------------------------
(* Claims about ProgressRunner.run of env_manager/runners (specification   *)
(* SpecSpinner)                                                            *)

RunEnded == spin.pc \in {"returned", "raised"}

(* C25: on every path out of run() after the timer thread was started the *)
(* stop event is set and the thread is joined before run() returns or     *)
(* raises, and no timer thread started by the call is still running once  *)
(* the call has ended.                                                     *)
C25_TimerThreadEndedWhenRunEnds ==
    RunEnded => spin.stop_event /\ spin.joined /\ spin.timer = "ended"

(* the runner waits for a line of stdout while the child waits for room   *)
(* in the stderr pipe                                                      *)
BlockedOnEachOther ==
    /\ spin.pc = "read stdout"
    /\ spin.stdout = 0
    /\ ~spin.child.exited
    /\ next_write(spin.child) = "stderr"
    /\ spin.stderr = PipeCapacity

(* C29: in inline-output mode run() ends whenever the child can end:      *)
(* reading stdout to its end before stderr never leaves the runner and    *)
(* the child blocked on each other, whatever amounts the child writes to  *)
(* the two pipes of bounded capacity.                                      *)
C29_NeverBlockedOnEachOther == ~BlockedOnEachOther

----------------------------------------------------------------------------
(* Claims about ProgressRunner.run_with_capture of progress_runner.py      *)
(* (specification SpecBar)                                                 *)

(* the loop has seen the child's exit code and both pipes are at end of   *)
(* file, the pipes being open readable stream objects                      *)
ExitedAndDrained ==
    /\ bar.pc = "check"
    /\ bar.polled
    /\ bar.child.exited /\ bar.stdout = 0 /\ bar.stderr = 0
    /\ bar.readable

(* C30: the capture-mode loop ends once the child has exited and its two  *)
(* pipes are at end of file, for a process whose pipes remain open        *)
(* readable stream objects; the bar is then set to 100% with the label    *)
(* 'Completed' for exit code 0 or 'Failed (code N)' otherwise, and the    *)
(* result holds the exit code and all captured output.                    *)
C30_CaptureLoopEnds ==
    [][ExitedAndDrained
        => /\ bar'.pc = "complete"
           /\ bar'.return_code = bar.child.returncode
           /\ bar'.stdout_buffer = bar.written[1]
           /\ bar'.stderr_buffer = bar.written[2]]_vars

----------------------------------------------------------------------------
(* Claims about the scoped installation *)

(* how many commands equal to cmd the with statement issued in phase by *)
Issued(cmd, by) ==
    Cardinality({i \in 1..Len(cmds) : cmds[i].cmd = cmd /\ cmds[i].by = by})

OnePackage == pm.cm.exists /\ Len(pm.cm.packages) = 1

(* C10: in `with install_pkg(p): body` exactly one install command for p  *)
(* has been issued when the body starts and no uninstall command yet;     *)
(* when the scope has been left, however the body ended, exactly one      *)
(* install and exactly one uninstall command for p have been issued by    *)
(* the scope, the install first.                                           *)
C10_OneInstallOneUninstall ==
    OnePackage =>
        LET p == pm.cm.packages[1]
            ins == Issued(install_cmd(p, <<>>), "enter")
            unins == Issued(uninstall_cmd(p), "exit")
            byScope == {i \in 1..Len(cmds) : cmds[i].by \in {"enter", "exit"}}
        IN /\ pm.pc = "body" => ins = 1 /\ unins = 0 /\ Cardinality(byScope) = 1
           /\ pm.pc = "body" => cmds[1].cmd = install_cmd(p, <<>>)
           /\ pm.pc = "left" =>
                 /\ ins = 1
                 /\ unins = 1
                 /\ Cardinality(byScope) = 2
                 /\ cmds[1].cmd = install_cmd(p, <<>>)
                 /\ cmds[Len(cmds)].cmd = uninstall_cmd(p)

(* C10 witness: a one-package scope whose body raised has been left *)
C10_Witness ==
    /\ OnePackage
    /\ pm.pc = "left"
    /\ pm.bodyRaised
    /\ pm.outcome = BodyError
    /\ Len(cmds) >= 2

(* the install commands issued for package x so far *)
Installs(x) == {i \in 1..Len(cmds) : cmds[i].cmd = install_cmd(x, <<>>)}

(* C11: constructing an InstallPkgContextManager installs its packages at *)
(* construction time, also when the object is never entered; entering the *)
(* scope issues no install command.                                        *)
C11_InstalledAtConstruction ==
    /\ pm.cm.exists =>
          \A k \in 1..Len(pm.cm.packages) : Installs(pm.cm.packages[k]) # {}
    /\ \A i \in 1..Len(cmds) :
          cmds[i].by = "enter" => cmds[i].cmd[2] # "install"

(* an install command of the scope failed *)
ScopeInstallFailed ==
    \E i \in 1..Len(cmds) :
        cmds[i].by = "enter" /\ cmds[i].cmd[2] = "install" /\ ~cmds[i].ok

(* C12: when an install command of a scoped installation fails, the       *)
(* wrapped installation error is raised, the body is never executed and   *)
(* no uninstall command is issued.                                         *)
C12_FailedInstallNeverEnters ==
    ScopeInstallFailed =>
        /\ pm.outcome = InstallPkgsError
        /\ pm.pc = "not entered"
        /\ pm.bodyCalls = 0
        /\ \A i \in 1..Len(cmds) : cmds[i].by = "enter" /\ cmds[i].cmd[2] = "install"

(* C12 witness: the second package of a scope failed to install after the *)
(* first had been installed                                                *)
C12_Witness ==
    /\ ScopeInstallFailed
    /\ Len(cmds) = 2
    /\ cmds[1].ok
    /\ ~cmds[2].ok
    /\ pm.outcome = InstallPkgsError

(* C28: for a scoped installation of several packages, every package      *)
(* whose install command succeeded has an uninstall command issued for it *)
(* by the time the with statement is left, also when the install of a     *)
(* later package failed or the uninstall of an earlier package failed.    *)
C28_EveryInstalledUninstalled ==
    pm.pc \in {"left", "not entered"} =>
        \A i \in 1..Len(cmds) :
            (cmds[i].by = "enter" /\ cmds[i].cmd[2] = "install" /\ cmds[i].ok)
            => \E j \in (i + 1)..Len(cmds) :
                  cmds[j].by = "exit" /\ cmds[j].cmd = uninstall_cmd(cmds[i].cmd[3])

----------------------------------------------------------------------------
(* Claims about GlobalState *)

(* C13: after save() returned and a new GlobalState was constructed from  *)
(* the same directory, every key of the saved store is in the new store   *)
(* with an equal value.                                                    *)
C13_SaveReloadRoundTrip ==
    gs.last.op = "construct" /\ gs.last.afterSave =>
        \A k \in DOMAIN gs.last.prev :
            k \in DOMAIN gs.store /\ gs.store[k] = gs.last.prev[k]

(* C14: when load() had to catch an error, the store is empty afterwards, *)
(* whatever it held before.                                                *)
C14_LoadErrorLeavesEmpty ==
    gs.last.op = "load" /\ gs.last.diag => gs.store = EmptyStore

(* C15: reset() returns normally and leaves the store empty; when no      *)
(* deletion failed the backing file is gone, the directory is gone if     *)
(* nothing else is in it, and a GlobalState constructed next from the     *)
(* same directory is empty; a deletion that failed is reported by a       *)
(* diagnostic.                                                             *)
C15_Reset ==
    /\ gs.last.op = "reset" =>
          /\ gs.last.outcome = OK
          /\ gs.store = EmptyStore
          /\ gs.last.fail = 0 =>
                /\ ~gs.file.exists
                /\ ~gs.other => ~gs.dir
                /\ ~gs.last.diag
          /\ gs.last.fail # 0 => gs.last.diag
    /\ gs.last.op = "construct" /\ gs.last.afterReset => gs.store = EmptyStore

(* C15 witness: a store that had been saved was reset, which removed the  *)
(* file and the directory, and the GlobalState constructed next is empty  *)
C15_Witness ==
    /\ gs.last.op = "construct"
    /\ gs.last.afterReset
    /\ gs.last.hadFile
    /\ ~gs.dir
    /\ gs.store = EmptyStore

----------------------------------------------------------------------------
(* Claims about RunnerFactory (specification SpecFactory) *)

RegisteredIn(regs) == {regs[i].name : i \in 1..Len(regs)}

(* the class given by the latest register call made under the name *)
LastRegistered(regs, name) ==
    regs[CHOOSE i \in 1..Len(regs) :
            regs[i].name = name /\ \A j \in (i + 1)..Len(regs) : regs[j].name # name].cls

(* C16: after any sequence of register calls, create(name) returns an     *)
(* instance of the class most recently registered under name, whatever    *)
(* was registered under other names, and available_runners() lists each   *)
(* registered name exactly once.                                           *)
C16_LastWriteWins ==
    /\ (rf.last.op = "create" /\ rf.last.kwargs = NoKwargs
            /\ rf.last.name \in RegisteredIn(rf.regs))
       => /\ rf.last.outcome = OK
          /\ rf.last.runner.cls = LastRegistered(rf.regs, rf.last.name)
    /\ rf.last.op = "available"
       => /\ {rf.last.names[i] : i \in 1..Len(rf.last.names)} = RegisteredIn(rf.regs)
          /\ Len(rf.last.names) = Cardinality(RegisteredIn(rf.regs))

(* create(name) after two different classes were registered under name    *)
(* and another name was registered in between or afterwards                *)
C16_Witness ==
    /\ rf.last.op = "create"
    /\ rf.last.kwargs = NoKwargs
    /\ rf.last.outcome = OK
    /\ \E i, j \in 1..Len(rf.regs) :
          /\ i < j
          /\ rf.regs[i].name = rf.last.name
          /\ rf.regs[j].name = rf.last.name
          /\ rf.regs[i].cls # rf.regs[j].cls
    /\ \E k \in 4..Len(rf.regs) : rf.regs[k].name # rf.last.name

(* C17: create(name, **constructor_kwargs) for a registered name returns  *)
(* a new runner built by passing exactly those keyword arguments to the   *)
(* registered class; for an unregistered name it fails with ValueError     *)
(* naming the registered types and leaves the registry unchanged.          *)
C17_CreatePassesKwargs ==
    rf.last.op = "create"
    => IF has_key(rf.last.prev, rf.last.name)
       THEN /\ rf.last.outcome = OK
            /\ rf.last.runner = [cls |-> getitem(rf.last.prev, rf.last.name),
                                 kwargs |-> rf.last.kwargs]
       ELSE /\ rf.last.outcome = UnknownRunnerError
            /\ rf.last.names = keys(rf.last.prev)
            /\ rf.runners = rf.last.prev

----------------------------------------------------------------------------
(* Claims about running commands (specification SpecRun) *)

RunOps == {"EnvManager.run", "Runner.run", "ProgressRunner.run", "LocalRunner.run"}

(* C18: for the standard, the progress-spinner and the local runner bound *)
(* to an environment manager, and for EnvManager.run, running with no     *)
(* command argument fails with ValueError 'No command provided', not with *)
(* a wrapped execution-failure error, and spawns no process.              *)
C18_NoCommandIsInvalidInput ==
    (rn.last.op \in RunOps /\ rn.last.bound /\ rn.last.args = <<>>)
    => /\ rn.last.res.outcome = NoCommandError
       /\ ~rn.last.res.spawned

(* check is in force for the call: the default, unless the caller gave    *)
(* check=False                                                             *)
Checked(given) == "check" \notin DOMAIN given \/ given["check"]

PrepareOps == {"EnvManager.run", "prepare_command"}

ActivationScript == join(rn.env.bin, <<"activate">>)

(* the branch taken, the shell option and the interpreter chosen for a    *)
(* command named python; text: the command part of the shell string       *)
PreparedAs(text) ==
    IF ActivationScript \in rn.files
    THEN /\ rn.last.res.shell_cmd.is_str
         /\ rn.last.res.shell_cmd.text = source_and(ActivationScript, text)
         /\ rn.last.res.kwargs["shell"] = TRUE
    ELSE /\ ~rn.last.res.shell_cmd.is_str
         /\ rn.last.res.kwargs["shell"] = FALSE
         /\ rn.last.res.shell_cmd.argv =
               << IF rn.env.python \in rn.files THEN rn.env.python ELSE SysExecutable >>
               \o Tail(rn.last.args)

PythonCommand ==
    /\ rn.last.op \in PrepareOps
    /\ rn.last.args # <<>>
    /\ rn.last.args[1] = <<"python">>

(* C20 as stated: for a command whose first token is python, with an      *)
(* activation script the prepared command is one shell string, the        *)
(* activation invocation followed by the literal requested command, shell *)
(* enabled; otherwise an argument list, shell disabled, of the            *)
(* environment's interpreter if it exists on disk, else the running       *)
(* interpreter, followed by the remaining arguments unchanged.            *)
C20_LiteralCommand == PythonCommand => PreparedAs(join_args(rn.last.args))

(* C20, amended: as stated, except that prepare_command of                *)
(* progress_runner.py puts the inline code of a `python -c` command       *)
(* between double quotes in the shell string.                              *)
C20_PreparationBranches ==
    PythonCommand
    => IF rn.last.op = "prepare_command" /\ Len(rn.last.args) >= 2
          /\ rn.last.args[2] = <<"-c">>
       THEN PreparedAs(<<"python", " ", "-c", " ", "\"">>
                       \o join_args(SubSeq(rn.last.args, 3, Len(rn.last.args)))
                       \o <<"\"">>)
       ELSE PreparedAs(join_args(rn.last.args))

(* a python command prepared with no activation script and no interpreter *)
(* in the environment: the running interpreter is used                    *)
C20_Witness ==
    /\ PythonCommand
    /\ ActivationScript \notin rn.files
    /\ rn.env.python \notin rn.files
    /\ rn.env.python # SysExecutable
    /\ rn.last.res.outcome = OK
    /\ rn.last.res.shell_cmd.argv[1] = SysExecutable

----------------------------------------------------------------------------
(* Claims about two managers used together (specification SpecNested) *)

NestCall(i, op, m) == nest[i].op = op /\ nest[i].m = m

(* the steps i .. i+2 are activate a, activate b, deactivate b *)
NestedScopes(i, a, b) ==
    /\ a # b
    /\ i + 2 <= Len(nest)
    /\ NestCall(i, "activate", a)
    /\ NestCall(i + 1, "activate", b)
    /\ NestCall(i + 2, "deactivate", b)

ProcessState(env, sp) == [environ |-> env, syspath |-> sp]

(* after deactivate b the state is the one activate a left, and after a   *)
(* deactivate a that follows, the one activate a began in                 *)
NestedRestores(i, a) ==
    /\ ProcessState(nest[i + 2].environ, nest[i + 2].syspath)
          = ProcessState(nest[i].environ, nest[i].syspath)
    /\ is_active(mgr[a], nest[i].environ) => is_active(mgr[a], nest[i + 2].environ)
    /\ (i + 3 <= Len(nest) /\ NestCall(i + 3, "deactivate", a))
       => ProcessState(nest[i + 3].environ, nest[i + 3].syspath)
             = ProcessState(nest[i].preEnv, nest[i].prePath)

(* C26 as stated: two virtual managers A and B with different roots used  *)
(* as strictly nested scopes (activate A, activate B, deactivate B,       *)
(* deactivate A): after deactivate B the process state equals the state   *)
(* right after A's activation, and after deactivate A the state before    *)
(* A's activation.                                                         *)
C26_NestedAlways ==
    \A i \in 1..Len(nest) : \A a, b \in Managers :
        NestedScopes(i, a, b) => NestedRestores(i, a)

(* C26, amended: the same, for managers that are not already active when  *)
(* their activate() is called.                                             *)
C26_NestedWhenInactive ==
    \A i \in 1..Len(nest) : \A a, b \in Managers :
        (NestedScopes(i, a, b) /\ ~nest[i].wasActive /\ ~nest[i + 1].wasActive)
        => /\ NestedRestores(i, a)
           /\ is_active(mgr[a], nest[i + 2].environ)

(* the four calls made on inactive managers, each changing the state *)
C26_Witness ==
    \E i \in 1..Len(nest) : \E a, b \in Managers :
        /\ NestedScopes(i, a, b)
        /\ i + 3 <= Len(nest)
        /\ NestCall(i + 3, "deactivate", a)
        /\ ~nest[i].wasActive
        /\ ~nest[i + 1].wasActive
        /\ nest[i].environ # nest[i].preEnv
        /\ nest[i + 1].environ # nest[i].environ
        /\ nest[i + 3].environ = nest[i].preEnv

(* the steps i .. i+3 activate both managers and then deactivate both;    *)
(* p is deactivated first                                                  *)
BothDeactivated(i, a, b, p, q) ==
    /\ a # b
    /\ p # q
    /\ i + 3 = Len(nest)
    /\ NestCall(i, "activate", a)
    /\ NestCall(i + 1, "activate", b)
    /\ NestCall(i + 2, "deactivate", p)
    /\ NestCall(i + 3, "deactivate", q)

NamesARoot(env) ==
    \E m \in Managers : MarkerNamesRoot(mgr[m], env)

NeitherActive ==
    /\ \A m \in Managers : ~is_active(mgr[m], environ)
    /\ ~NamesARoot(environ)

====
